---- MODULE Spec2Model ----
(***************************************************************************)
(* A model of calendar-sync: the one-way reconciliation of a work (source) *)
(* calendar into a destination calendar (internal/sync Syncer.Sync), with  *)
(* the event filter, the safety gate, the token-expiry reminder and the    *)
(* two destination clients (Google Calendar API, Apple CalDAV).            *)
(*                                                                         *)
(* Conventions.  A Go string is a tuple of one-character strings, so that  *)
(* strings.Contains, strings.ToLower and strings.TrimSpace are computed.   *)
(* An RFC3339 date-time string is the tuple <<day, minute, offset>> (the   *)
(* minute of the day as written, the zone offset in minutes); any other    *)
(* tuple is a string time.Parse rejects.  A date string "2006-01-02" is    *)
(* <<day>>.  Day numbers count from a Monday: day d is a Monday iff        *)
(* d % 7 = 0.  The local zone of the process is UTC.                       *)
(***************************************************************************)
EXTENDS Integers, Sequences, FiniteSets, TLC

\* ------------------------------------------------------------------ bounds

\* The destination store refuses an InsertEvent once it holds MaxDest events.
MaxDest == 2
\* The number of writes other parties make to the destination calendar.
MaxExternal == 1
\* The number of calls the network fails in one pass.
MaxFailures == 1

\* ----------------------------------------------------------------- strings

Str_Upper == <<"A", "B", "C", "D", "E", "F", "G", "H", "I", "J", "K", "L", "M",
               "N", "O", "P", "Q", "R", "S", "T", "U", "V", "W", "X", "Y", "Z">>
Str_Lower == <<"a", "b", "c", "d", "e", "f", "g", "h", "i", "j", "k", "l", "m",
               "n", "o", "p", "q", "r", "s", "t", "u", "v", "w", "x", "y", "z">>

\* strings.ToLower on one character
LowerChar(c) ==
    IF \E i \in 1..26 : Str_Upper[i] = c
    THEN Str_Lower[CHOOSE i \in 1..26 : Str_Upper[i] = c]
    ELSE c

\* strings.ToLower
ToLower(s) == [i \in 1..Len(s) |-> LowerChar(s[i])]

\* strings.Contains
Contains(s, sub) ==
    \E i \in 0..(Len(s) - Len(sub)) : SubSeq(s, i + 1, i + Len(sub)) = sub

IsSpace(c) == c \in {" ", "\t", "\n", "\r"}

\* strings.TrimSpace
TrimSpace(s) ==
    IF \A i \in 1..Len(s) : IsSpace(s[i])
    THEN << >>
    ELSE LET lo == CHOOSE i \in 1..Len(s) :
                       ~IsSpace(s[i]) /\ \A j \in 1..(i - 1) : IsSpace(s[j])
             hi == CHOOSE i \in 1..Len(s) :
                       ~IsSpace(s[i]) /\ \A j \in (i + 1)..Len(s) : IsSpace(s[j])
         IN  SubSeq(s, lo, hi)

kw_out_of_office == <<"o", "u", "t", " ", "o", "f", " ", "o", "f", "f", "i", "c", "e">>
kw_oof == <<"o", "o", "f">>
kw_pto == <<"p", "t", "o">>
kw_vacation == <<"v", "a", "c", "a", "t", "i", "o", "n">>
kw_away == <<"a", "w", "a", "y">>
kw_remote == <<"r", "e", "m", "o", "t", "e">>
kw_working_from == <<"w", "o", "r", "k", "i", "n", "g", " ", "f", "r", "o", "m">>
kw_work_from_home == <<"w", "o", "r", "k", " ", "f", "r", "o", "m", " ", "h", "o", "m", "e">>
kw_work_from_office ==
    <<"w", "o", "r", "k", " ", "f", "r", "o", "m", " ", "o", "f", "f", "i", "c", "e">>
kw_wfh == <<"w", "f", "h">>
kw_wfo == <<"w", "f", "o">>
kw_work_location == <<"w", "o", "r", "k", " ", "l", "o", "c", "a", "t", "i", "o", "n">>
kw_office == <<"o", "f", "f", "i", "c", "e">>
kw_out_of == <<"o", "u", "t", " ", "o", "f">>
str_outOfOffice == <<"o", "u", "t", "O", "f", "O", "f", "f", "i", "c", "e">>
str_transparent == <<"t", "r", "a", "n", "s", "p", "a", "r", "e", "n", "t">>
str_video == <<"v", "i", "d", "e", "o">>
str_yes == <<"y", "e", "s">>
str_y == <<"y">>
str_workEventId == "workEventId"

\* -------------------------------------------------------------------- time

MinutesPerDay == 1440
SecondsPerMinute == 60

\* time.Parse(time.RFC3339, s) succeeds
ParsesRFC3339(s) == Len(s) = 3
\* time.Parse("2006-01-02", s) succeeds
ParsesDate(s) == Len(s) = 1

\* The instant, in seconds, of a parsed RFC3339 string.
InstantOf(s) == (s[1] * MinutesPerDay + s[2] - s[3]) * SecondsPerMinute
\* The instant of midnight UTC of a parsed date string.
DateInstant(s) == s[1] * MinutesPerDay * SecondsPerMinute
\* The instant of second sec of day d, local time.
At(d, sec) == d * MinutesPerDay * SecondsPerMinute + sec

\* time.AddDate(0, 6, 0) and time.AddDate(1, 0, 0), in days and in seconds
HalfYearDays == 182
YearDays == 365
HalfYear == HalfYearDays * MinutesPerDay * SecondsPerMinute
Year == YearDays * MinutesPerDay * SecondsPerMinute

Range(f) == {f[x] : x \in DOMAIN f}

\* calendar.EventDateTime; the nil pointer is NilTime
NilTime == [nil |-> TRUE, Date |-> << >>, DateTime |-> << >>]
Timed(day, minute, off) ==
    [nil |-> FALSE, Date |-> << >>, DateTime |-> <<day, minute, off>>]
AllDay(day) == [nil |-> FALSE, Date |-> <<day>>, DateTime |-> << >>]

\* ------------------------------------------------------------------ events

\* ExtendedProperties.Private: a map from tag names to strings
NoPrivate == [k \in {} |-> << >>]
PrivateOf(workID) == [k \in {str_workEventId} |-> workID]

\* event.ExtendedProperties.Private["workEventId"], "" when absent
WorkIDOf(e) ==
    IF str_workEventId \in DOMAIN e.Private THEN e.Private[str_workEventId] ELSE << >>

\* calendar.Event with the fields the program reads or writes
NewEvent(id, summary, start, end) ==
    [Id |-> id, Summary |-> summary, Description |-> << >>, Location |-> << >>,
     Start |-> start, End |-> end, ConferenceData |-> << >>, Attendees |-> << >>,
     UseDefaultReminders |-> FALSE, EventType |-> << >>, Transparency |-> << >>,
     RecurringEventId |-> << >>, Private |-> NoPrivate]

\* ------------------------------------------------------ the work client

\* workClient.GetEvent("primary", id) on a calendar holding `events`:
\* the event with that id, or an error.
GetEvent(events, id) ==
    IF \E i \in 1..Len(events) : events[i].Id = id
    THEN [err |-> FALSE,
          ev |-> events[CHOOSE i \in 1..Len(events) :
                            events[i].Id = id /\ \A j \in 1..(i - 1) : events[j].Id # id]]
    ELSE [err |-> TRUE, ev |-> NewEvent(<< >>, << >>, NilTime, NilTime)]

\* ------------------------------------------------------------ the filter

\* A variant of isWorkLocationEvent without the exemption of out-of-office
\* titles.
isWorkLocationEvent_noExemption(event) ==
    IF event.Start.nil \/ event.Start.Date = << >> THEN FALSE
    ELSE LET summary == ToLower(event.Summary) IN
         IF summary = << >> THEN FALSE
         ELSE IF Contains(summary, kw_office) /\ ~Contains(summary, kw_out_of) THEN TRUE
         ELSE \E pattern \in {kw_remote, kw_working_from, kw_work_from_home,
                              kw_work_from_office, kw_wfh, kw_wfo, kw_work_location} :
                  Contains(summary, pattern)

isWorkLocationEvent(event) ==
    IF event.Start.nil \/ event.Start.Date = << >> THEN FALSE
    ELSE LET summary == ToLower(event.Summary) IN
         IF summary = << >> THEN FALSE
         ELSE IF Contains(summary, kw_out_of_office) \/ Contains(summary, kw_oof) THEN FALSE
         ELSE IF Contains(summary, kw_office) /\ ~Contains(summary, kw_out_of) THEN TRUE
         ELSE \E pattern \in {kw_remote, kw_working_from, kw_work_from_home,
                              kw_work_from_office, kw_wfh, kw_wfo, kw_work_location} :
                  Contains(summary, pattern)

\* A variant of isOutOfOffice that does not look at the parent.
isOutOfOffice_noParent(event, client) ==
    IF event.EventType = str_outOfOffice THEN TRUE
    ELSE IF event.Transparency = str_transparent THEN TRUE
    ELSE \E keyword \in {kw_out_of_office, kw_oof, kw_pto, kw_vacation, kw_away} :
             Contains(ToLower(event.Summary), keyword)

\* `client` is the work calendar the parent lookup reads.
isOutOfOffice(event, client) ==
    IF event.EventType = str_outOfOffice THEN TRUE
    ELSE LET parent == GetEvent(client, event.RecurringEventId)
             byParent ==
                 /\ event.RecurringEventId # << >>
                 /\ ~parent.err
                 /\ \/ parent.ev.EventType = str_outOfOffice
                    \/ parent.ev.Transparency = str_transparent
         IN  IF byParent THEN TRUE
             ELSE IF event.Transparency = str_transparent THEN TRUE
             ELSE \E keyword \in {kw_out_of_office, kw_oof, kw_pto, kw_vacation, kw_away} :
                      Contains(ToLower(event.Summary), keyword)

windowStart == 6 * 60
windowEnd == 24 * 60

\* A variant of overlaps that looks at the start only.
overlaps_startOnly(startMinutes, endMinutes) ==
    startMinutes >= windowStart /\ startMinutes < windowEnd

\* The overlap test of filterEvents on the minutes since midnight.
overlaps(startMinutes, endMinutes) ==
    \/ (startMinutes >= windowStart /\ startMinutes < windowEnd)
    \/ (endMinutes > windowStart /\ endMinutes <= windowEnd)
    \/ (startMinutes < windowStart /\ endMinutes > windowEnd)

\* One iteration of the loop of filterEvents: is the event appended?
filterKeeps(event, client) ==
    IF event.Start.Date # << >> THEN ~isWorkLocationEvent(event)
    ELSE IF isOutOfOffice(event, client) THEN FALSE
    ELSE IF ~ParsesRFC3339(event.Start.DateTime) THEN FALSE
    ELSE IF ~ParsesRFC3339(event.End.DateTime) THEN FALSE
    ELSE overlaps(event.Start.DateTime[2], event.End.DateTime[2])

filterEvents(events, client) ==
    SelectSeq(events, LAMBDA event : filterKeeps(event, client))

\* --------------------------------------------------- prepare and compare

\* A variant of prepareSyncEvent that leaves the attendee list in place.
prepareSyncEvent_keepsAttendees(sourceEvent) ==
    [Id |-> << >>,
     Summary |-> sourceEvent.Summary,
     Description |-> sourceEvent.Description,
     Location |-> sourceEvent.Location,
     Start |-> sourceEvent.Start,
     End |-> sourceEvent.End,
     ConferenceData |-> sourceEvent.ConferenceData,
     Attendees |-> sourceEvent.Attendees,
     UseDefaultReminders |-> TRUE,
     EventType |-> << >>,
     Transparency |-> << >>,
     RecurringEventId |-> << >>,
     Private |-> PrivateOf(sourceEvent.Id)]

prepareSyncEvent(sourceEvent) ==
    [Id |-> << >>,
     Summary |-> sourceEvent.Summary,
     Description |-> sourceEvent.Description,
     Location |-> sourceEvent.Location,
     Start |-> sourceEvent.Start,
     End |-> sourceEvent.End,
     ConferenceData |-> sourceEvent.ConferenceData,
     Attendees |-> << >>,
     UseDefaultReminders |-> TRUE,
     EventType |-> << >>,
     Transparency |-> << >>,
     RecurringEventId |-> << >>,
     Private |-> PrivateOf(sourceEvent.Id)]

\* A variant of timesEqual that compares the values as written.
timesEqual_asWritten(dt1, dt2) == dt1 = dt2

timesEqual(dt1, dt2) ==
    IF dt1.nil /\ dt2.nil THEN TRUE
    ELSE IF dt1.nil \/ dt2.nil THEN FALSE
    ELSE IF dt1.Date # << >> /\ dt2.Date # << >> THEN dt1.Date = dt2.Date
    ELSE IF dt1.DateTime # << >> /\ dt2.DateTime # << >> THEN
        IF ~ParsesRFC3339(dt1.DateTime) \/ ~ParsesRFC3339(dt2.DateTime)
        THEN dt1.DateTime = dt2.DateTime
        ELSE InstantOf(dt1.DateTime) = InstantOf(dt2.DateTime)
    ELSE FALSE

\* ConferenceData is the list of entry points; nil is the empty list.
getMeetURL(event) ==
    LET eps == event.ConferenceData
        isVideo(i) == eps[i].EntryPointType = str_video /\ eps[i].Uri # << >>
    IN  IF \E i \in 1..Len(eps) : isVideo(i)
        THEN eps[CHOOSE i \in 1..Len(eps) : isVideo(i) /\ \A j \in 1..(i - 1) : ~isVideo(j)].Uri
        ELSE << >>

\* A variant of eventsEqual that compares the titles only.
eventsEqual_sameTitle(event1, event2) == event1.Summary = event2.Summary

eventsEqual(event1, event2) ==
    /\ event1.Summary = event2.Summary
    /\ event1.Description = event2.Description
    /\ event1.Location = event2.Location
    /\ timesEqual(event1.Start, event2.Start)
    /\ timesEqual(event1.End, event2.End)
    /\ getMeetURL(event1) = getMeetURL(event2)

\* ------------------------------------------------------- the safety gate

\* The answer read from standard input: the scanner's line, or end of input.
NoInput == [eof |-> TRUE, text |-> << >>]
Line(text) == [eof |-> FALSE, text |-> text]

promptForConfirmation(isInteractive, input) ==
    IF ~isInteractive THEN FALSE
    ELSE IF input.eof THEN FALSE
    ELSE LET response == TrimSpace(ToLower(input.text)) IN
         response = str_yes \/ response = str_y

\* The number of events without a workEventId in a listing.
manuallyCreatedCount(existingEvents) ==
    Cardinality({i \in 1..Len(existingEvents) : WorkIDOf(existingEvents[i]) = << >>})

\* ------------------------------------------------------- the sync window

\* now.Weekday() of day d: Sunday is 0
Weekday(d) == (d + 1) % 7

\* A variant of startOfCurrentWeek that leaves Sunday at 0.
startOfCurrentWeek_sundayFirst(nowDay) ==
    LET weekday == Weekday(nowDay)
        daysFromMonday == weekday - 1
    IN  nowDay - daysFromMonday

startOfCurrentWeek(nowDay) ==
    LET weekday == IF Weekday(nowDay) = 0 THEN 7 ELSE Weekday(nowDay)
        daysFromMonday == weekday - 1
    IN  nowDay - daysFromMonday

EndOfDay == 23 * 3600 + 59 * 60 + 59

timeMinOf(nowDay, config) ==
    At(startOfCurrentWeek(nowDay) - 7 * config.SyncWindowWeeksPast, 0)
timeMaxOf(nowDay, config) ==
    At(startOfCurrentWeek(nowDay) + 7 * config.SyncWindowWeeks - 1, EndOfDay)

wideTimeMinForSync(nowDay, config) ==
    timeMinOf(nowDay, config) - HalfYear
wideTimeMaxForSync(nowDay, config) ==
    timeMaxOf(nowDay, config) + HalfYear

\* ----------------------------------------------- the destination clients

\* A destination calendar is a list of resources [href, ev]: the name the
\* server stores the resource under and the event a listing returns for it.
IdDigits == <<"1", "2", "3", "4", "5", "6", "7", "8", "9">>

\* The instants a server compares with the time range of a listing.
StartInstantOf(e) ==
    IF e.Start.nil THEN 0
    ELSE IF e.Start.Date # << >> THEN DateInstant(e.Start.Date)
    ELSE InstantOf(e.Start.DateTime)
EndInstantOf(e) ==
    IF e.End.nil THEN StartInstantOf(e)
    ELSE IF e.End.Date # << >> THEN DateInstant(e.End.Date)
    ELSE InstantOf(e.End.DateTime)

EventsOf(store) == [i \in 1..Len(store) |-> store[i].ev]

\* GetEvents(calendarID, timeMin, timeMax): Events.List with TimeMin/TimeMax
\* (Google), the calendar-query REPORT with a time-range (CalDAV).
GetEvents(store, timeMin, timeMax) ==
    SelectSeq(EventsOf(store),
              LAMBDA e : EndInstantOf(e) > timeMin /\ StartInstantOf(e) < timeMax)

\* A variant of googleEventToICal that writes no X-WORK-EVENT-ID property.
googleEventToICal_untagged(event, uid) ==
    [UID |-> IF event.Id # << >> THEN event.Id ELSE uid,
     SUMMARY |-> event.Summary,
     DESCRIPTION |-> event.Description,
     LOCATION |-> event.Location,
     DTSTART |-> IF event.Start.nil THEN << >>
                 ELSE IF event.Start.Date # << >>
                      THEN IF ParsesDate(event.Start.Date)
                           THEN <<"DATE", event.Start.Date[1]>> ELSE << >>
                 ELSE IF event.Start.DateTime # << >> /\ ParsesRFC3339(event.Start.DateTime)
                      THEN <<"DATE-TIME", InstantOf(event.Start.DateTime)>>
                 ELSE << >>,
     DTEND |-> IF event.End.nil THEN << >>
               ELSE IF event.End.Date # << >>
                    THEN IF ParsesDate(event.End.Date)
                         THEN <<"DATE", event.End.Date[1]>> ELSE << >>
               ELSE IF event.End.DateTime # << >> /\ ParsesRFC3339(event.End.DateTime)
                    THEN <<"DATE-TIME", InstantOf(event.End.DateTime)>>
               ELSE << >>,
     TRANSP |-> event.Transparency = str_transparent,
     X_WORK_EVENT_ID |-> << >>]

\* googleEventToICal: the VEVENT written for an event; uid is the generated
\* UID used when the event has no Id.
googleEventToICal(event, uid) ==
    [UID |-> IF event.Id # << >> THEN event.Id ELSE uid,
     SUMMARY |-> event.Summary,
     DESCRIPTION |-> event.Description,
     LOCATION |-> event.Location,
     DTSTART |-> IF event.Start.nil THEN << >>
                 ELSE IF event.Start.Date # << >>
                      THEN IF ParsesDate(event.Start.Date)
                           THEN <<"DATE", event.Start.Date[1]>> ELSE << >>
                 ELSE IF event.Start.DateTime # << >> /\ ParsesRFC3339(event.Start.DateTime)
                      THEN <<"DATE-TIME", InstantOf(event.Start.DateTime)>>
                 ELSE << >>,
     DTEND |-> IF event.End.nil THEN << >>
               ELSE IF event.End.Date # << >>
                    THEN IF ParsesDate(event.End.Date)
                         THEN <<"DATE", event.End.Date[1]>> ELSE << >>
               ELSE IF event.End.DateTime # << >> /\ ParsesRFC3339(event.End.DateTime)
                    THEN <<"DATE-TIME", InstantOf(event.End.DateTime)>>
               ELSE << >>,
     TRANSP |-> event.Transparency = str_transparent,
     X_WORK_EVENT_ID |-> WorkIDOf(event)]

\* time.Format(time.RFC3339) of an instant, in UTC
FormatUTC(instant) ==
    LET minutes == instant \div SecondsPerMinute
    IN  <<minutes \div MinutesPerDay, minutes % MinutesPerDay, 0>>

\* icalToGoogleEvent: the event a listing returns for a stored VEVENT.
icalToGoogleEvent(vevent) ==
    LET start ==
            IF vevent.DTSTART = << >> THEN NilTime
            ELSE IF vevent.DTSTART[1] = "DATE" THEN AllDay(vevent.DTSTART[2])
            ELSE [nil |-> FALSE, Date |-> << >>, DateTime |-> FormatUTC(vevent.DTSTART[2])]
        endFromStart ==
            IF vevent.DTSTART # << >> /\ vevent.DTSTART[1] = "DATE"
            THEN AllDay(vevent.DTSTART[2] + 1)
            ELSE NilTime
        end ==
            IF ~endFromStart.nil THEN endFromStart
            ELSE IF vevent.DTEND = << >> THEN NilTime
            ELSE IF vevent.DTEND[1] = "DATE" THEN AllDay(vevent.DTEND[2])
            ELSE [nil |-> FALSE, Date |-> << >>, DateTime |-> FormatUTC(vevent.DTEND[2])]
    IN  [Id |-> vevent.UID,
         Summary |-> vevent.SUMMARY,
         Description |-> vevent.DESCRIPTION,
         Location |-> vevent.LOCATION,
         Start |-> start,
         End |-> end,
         ConferenceData |-> << >>,
         Attendees |-> << >>,
         UseDefaultReminders |-> FALSE,
         EventType |-> << >>,
         Transparency |-> IF vevent.TRANSP THEN str_transparent ELSE << >>,
         RecurringEventId |-> << >>,
         Private |-> IF vevent.X_WORK_EVENT_ID # << >>
                     THEN PrivateOf(vevent.X_WORK_EVENT_ID) ELSE NoPrivate]

\* The result of a mutation call: whether it returned an error, and the store.
Failed(store) == [err |-> TRUE, store |-> store]
Succeeded(store) == [err |-> FALSE, store |-> store]

\* Client.InsertEvent (Google): Events.Insert; the server assigns the id
\* <<"g", n>> and refuses the insert when the calendar is full.
GoogleInsertEvent(store, event, n) ==
    IF Len(store) >= MaxDest THEN Failed(store)
    ELSE LET id == <<"g", IdDigits[n]>>
         IN  Succeeded(Append(store, [href |-> id, ev |-> [event EXCEPT !.Id = id]]))

\* Client.UpdateEvent (Google): Events.Update replaces the event eventID.
GoogleUpdateEvent(store, eventID, event) ==
    IF \E i \in 1..Len(store) : store[i].href = eventID
    THEN Succeeded([i \in 1..Len(store) |->
                       IF store[i].href = eventID
                       THEN [href |-> eventID, ev |-> [event EXCEPT !.Id = eventID]]
                       ELSE store[i]])
    ELSE Failed(store)

\* DeleteEvent: Events.Delete (Google), DELETE calendarID+eventID (CalDAV):
\* the resource of that name is removed, an unknown name is an error.
DeleteResource(store, eventID) ==
    IF \E i \in 1..Len(store) : store[i].href = eventID
    THEN Succeeded(SelectSeq(store, LAMBDA r : r.href # eventID))
    ELSE Failed(store)

\* AppleCalendarClient.InsertEvent: PUT of the VEVENT under a new name.  Both
\* the UID (when the event has no Id) and the resource name are generated
\* from the clock; the name is sanitised and given the suffix ".ics".
AppleInsertEvent(store, event, n) ==
    IF Len(store) >= MaxDest THEN Failed(store)
    ELSE LET uid == <<"u", IdDigits[n]>>
             name == IF event.Id # << >> THEN event.Id \o <<".ics">>
                     ELSE <<"h", IdDigits[n], ".ics">>
         IN  Succeeded(Append(SelectSeq(store, LAMBDA r : r.href # name),
                              [href |-> name,
                               ev |-> icalToGoogleEvent(googleEventToICal(event, uid))]))

\* AppleCalendarClient.UpdateEvent
AppleUpdateEvent(store, eventID, event, n) == AppleInsertEvent(store, event, n)

\* The three mutation calls of the destination client of type destType; n
\* is the number the server or the clock contributes to a new identifier.
InsertEvent(destType, store, event, n) ==
    IF destType = "apple" THEN AppleInsertEvent(store, event, n)
    ELSE GoogleInsertEvent(store, event, n)
UpdateEvent(destType, store, eventID, event, n) ==
    IF destType = "apple" THEN AppleUpdateEvent(store, eventID, event, n)
    ELSE GoogleUpdateEvent(store, eventID, event)
DeleteEvent(destType, store, eventID) == DeleteResource(store, eventID)

\* FindEventsByWorkID (Google): Events.List with privateExtendedProperty
FindEventsByWorkID(store, workEventID) ==
    SelectSeq(EventsOf(store), LAMBDA e : WorkIDOf(e) = workEventID)

\* ------------------------------------------------------------- the world

\* The day and second of time.Now(): a Wednesday.
NowDay == 702
NowSecond == 9 * 3600
now == At(NowDay, NowSecond)

\* config.Config as loaded: the default window of two weeks forward.
DefaultConfig == [SyncWindowWeeks |-> 2, SyncWindowWeeksPast |-> 0]

id_A == <<"A">>
id_B == <<"B">>
reminderWorkID == <<"T", "O", "K", "E", "N", "_", "R", "E", "F", "R", "E", "S", "H",
                    "_", "R", "E", "M", "I", "N", "D", "E", "R">>

title_Standup == <<"S", "t", "a", "n", "d", "u", "p">>
title_Planning == <<"P", "l", "a", "n", "n", "i", "n", "g">>
title_Vacation == <<"V", "a", "c", "a", "t", "i", "o", "n">>
title_Review == <<"R", "e", "v", "i", "e", "w">>
title_Lunch == <<"L", "u", "n", "c", "h">>
title_Reminder == <<"R", "e", "f", "r", "e", "s", "h", " ", "O", "A", "u", "t", "h", " ",
                    "T", "o", "k", "e", "n">>
uri_meet == <<"m", "e", "e", "t">>
guest_bob == <<"b", "o", "b">>

\* The versions of work event A: the stand-up at 10:00-11:00, moved to
\* 11:00-12:00, renamed, renamed to a title with an out-of-office keyword,
\* and made an all-day event.
WorkEventA(version) ==
    LET base == NewEvent(id_A, title_Standup,
                         Timed(NowDay + 1, 600, 0), Timed(NowDay + 1, 660, 0))
        invited == [base EXCEPT !.Attendees = <<guest_bob>>, !.UseDefaultReminders = FALSE]
    IN  CASE version = "10:00" -> invited
          [] version = "11:00" ->
                 [invited EXCEPT !.Start = Timed(NowDay + 1, 660, 0),
                                 !.End = Timed(NowDay + 1, 720, 0)]
          [] version = "renamed" -> [invited EXCEPT !.Summary = title_Planning]
          [] version = "vacation" -> [invited EXCEPT !.Summary = title_Vacation]
          [] version = "allday" ->
                 [invited EXCEPT !.Start = AllDay(NowDay + 1), !.End = AllDay(NowDay + 2)]

\* Work event B: a review at 16:00-17:00 +02:00 with a video link.
WorkEventB ==
    [NewEvent(id_B, title_Review, Timed(NowDay + 2, 960, 120), Timed(NowDay + 2, 1020, 120))
        EXCEPT !.ConferenceData = <<[EntryPointType |-> str_video, Uri |-> uri_meet]>>]

VersionsA == {"10:00", "11:00", "renamed", "vacation", "allday"}
WorkEvents == {WorkEventA(v) : v \in VersionsA} \cup {WorkEventB}
WorkIDs == {id_A, id_B}

\* The event checkAndCreateTokenReminder writes.
reminderEvent ==
    [NewEvent(<< >>, title_Reminder, Timed(NowDay + 5, 540, 0), Timed(NowDay + 5, 600, 0))
        EXCEPT !.UseDefaultReminders = TRUE, !.Private = PrivateOf(reminderWorkID)]

\* What other parties write into the destination calendar: an event made
\* by hand, and events carrying a tracking key (left by an earlier run, or
\* copied), inside the sync window or years away.
ManualEvent == NewEvent(<< >>, title_Lunch, Timed(NowDay + 1, 720, 0), Timed(NowDay + 1, 780, 0))
FarDay == NowDay + 3 * YearDays
TaggedEvent(workID, far) ==
    LET day == IF far THEN FarDay ELSE NowDay + 1
    IN  [NewEvent(<< >>, title_Standup, Timed(day, 600, 0), Timed(day, 660, 0))
            EXCEPT !.UseDefaultReminders = TRUE, !.Private = PrivateOf(workID)]
\* An event with a tracking key two months ahead: outside the sync window,
\* inside the wide range of the destination listing.
LaterDay == NowDay + 60
LaterTaggedEvent ==
    [TaggedEvent(id_A, FALSE) EXCEPT !.Start = Timed(LaterDay, 600, 0),
                                     !.End = Timed(LaterDay, 660, 0)]
ExternalEvents ==
    {ManualEvent, LaterTaggedEvent} \cup {TaggedEvent(id_A, far) : far \in BOOLEAN}

\* The lines the operator may type at the prompt.
Inputs == {NoInput, Line(<< >>), Line(str_yes), Line(<<" ", "Y", " ">>), Line(<<"n", "o">>)}

\* ------------------------------------------------------------- the state

VARIABLES
    world,   \* the destination's type, its token file, the terminal, the configuration
    work,    \* the work calendar: the list of source events
    dest,    \* the destination calendar: the list of resources
    pc,      \* the position of Sync, or where it rests between passes
    local,   \* the local variables of Sync
    calls,   \* the mutation calls the current pass has issued, in order
    obs      \* what an observer records about the passes

vars == <<world, work, dest, pc, local, calls, obs>>

Rest == {"idle", "done", "error", "aborted"}

NoGroups == [k \in {} |-> << >>]
NoSource == [k \in {} |-> << >>]

\* The local variables of Sync before its first statement.
InitialLocal ==
    [existingReminders |-> << >>,
     manuallyCreatedCount |-> 0,
     filteredEvents |-> << >>,
     sourceEventsMap |-> NoSource,
     destEvents |-> << >>,
     eventsWithoutWorkID |-> << >>,
     destEventsByWorkID |-> NoGroups,
     todo |-> {},
     stale |-> << >>]

NotAsked == [eof |-> FALSE, text |-> <<"-">>]

\* What the observer knows before a pass: no call has failed, nothing was
\* read from the terminal; last is how the latest pass ended if nothing has
\* been written to either calendar since ("clean": it returned nil and no
\* call failed; "healed": the same, right after a pass that was aborted;
\* "aborted"), prev is the same for the pass before the current one;
\* untagged0 tells whether the destination held an event without tracking
\* key, inside every listing range, when the pass began; scenario is how
\* far the history so far follows the script of ScenarioAfter; failedCalls
\* names the calls other than mutations that returned an error in the pass;
\* workCalls names the methods the pass has called on the work client;
\* cancelledAt holds the number of mutation calls the pass had issued when
\* its context was cancelled, if it was; decisions counts the decisions of the
\* safety gate in the pass.
InitialObs(externals, scenario) ==
    [failures |-> 0, failed |-> FALSE, asked |-> FALSE, input |-> NotAsked,
     last |-> "none", prev |-> "none", untagged0 |-> FALSE, externals |-> externals,
     scenario |-> scenario, failedCalls |-> {}, workCalls |-> {},
     cancelledAt |-> << >>, decisions |-> 0]

\* The script of three passes, each without a failed call, over a
\* destination that starts empty: the source gets event A at 10:00 ("set"),
\* a pass ("synced"), A moves to 11:00 ("moved"), a pass ("resynced"), A
\* is deleted ("deleted"), a pass ("emptied").  Anything else leaves the
\* script ("off").
ScenarioAfter(scenario, step, calendar) ==
    CASE step = "change" /\ scenario = "start" /\ calendar = <<WorkEventA("10:00")>> -> "set"
      [] step = "change" /\ scenario = "synced" /\ calendar = <<WorkEventA("11:00")>> -> "moved"
      [] step = "change" /\ scenario = "resynced" /\ calendar = << >> -> "deleted"
      [] step = "pass" /\ scenario \in {"set", "moved", "deleted"} -> scenario
      [] step = "clean" /\ scenario = "set" -> "synced"
      [] step = "clean" /\ scenario = "moved" -> "resynced"
      [] step = "clean" /\ scenario = "deleted" -> "emptied"
      [] OTHER -> "off"

Init ==
    /\ world \in [destType : {"google", "apple"},
                  token : BOOLEAN,
                  interactive : {FALSE},
                  config : {DefaultConfig}]
    /\ world.destType = "apple" => ~world.token
    /\ work = << >>
    /\ dest = << >>
    /\ pc = "idle"
    /\ local = InitialLocal
    /\ calls = << >>
    /\ obs = InitialObs(0, "start")

timeMin == timeMinOf(NowDay, world.config)
timeMax == timeMaxOf(NowDay, world.config)

\* The number a server or the clock gives the next identifier: one that no
\* resource and no event this pass has seen carries.
UsedNumbers ==
    {dest[i].href[2] : i \in 1..Len(dest)}
        \cup {local.destEvents[i].Id[2] : i \in 1..Len(local.destEvents)}
        \cup {local.existingReminders[i].Id[2] : i \in 1..Len(local.existingReminders)}
FreshNumber ==
    CHOOSE n \in 1..Len(IdDigits) :
        /\ IdDigits[n] \notin UsedNumbers
        /\ \A m \in 1..(n - 1) : IdDigits[m] \in UsedNumbers

\* The record of one mutation call: the operation, the step of Sync that
\* issued it, the event id addressed, the tracking key it was issued for,
\* the event passed (for a delete, the event deleted), and the error.
CallOf(op, step, id, key, ev, err) ==
    [op |-> op, step |-> step, id |-> id, key |-> key, ev |-> ev, err |-> err]

\* The network may fail a call; otherwise the server decides.
Outcome(ok, result) == IF ok THEN result ELSE Failed(dest)

\* The outcomes the network may give the next call of the pass.
Network == IF obs.failures < MaxFailures THEN BOOLEAN ELSE {TRUE}

\* Where Sync continues once the loops that are under way have advanced.
Continue(l) ==
    IF l.eventsWithoutWorkID # << >> THEN "deleteUntagged"
    ELSE IF l.stale # << >> THEN "deleteStale"
    ELSE IF l.todo # {} THEN "groups"
    ELSE IF DOMAIN l.sourceEventsMap # {} THEN "remaining"
    ELSE "done"

\* The observer's record after a call that failed or not, with Sync
\* continuing at nextpc.
ObsAfter(ok, err, nextpc) ==
    LET failed == obs.failed \/ err
    IN  [obs EXCEPT !.failures = IF ok THEN @ ELSE @ + 1,
                    !.failed = failed,
                    !.last = IF nextpc = "done" /\ ~failed
                             THEN IF obs.prev = "aborted" THEN "healed" ELSE "clean"
                             ELSE "none",
                    !.scenario = IF nextpc = "done" /\ ~failed
                                 THEN ScenarioAfter(@, "clean", work)
                                 ELSE IF nextpc \in {"done", "error"} THEN "off" ELSE @]

\* ------------------------------------------------------------------ Sync

\* Standard input is a terminal or not. Only promptForConfirmation looks
\* at it, and it is called only for a destination that holds an event
\* without tracking key; a run over any other destination is taken to have
\* no terminal.
Terminals ==
    IF \E i \in 1..Len(dest) : WorkIDOf(dest[i].ev) = << >> THEN BOOLEAN ELSE {FALSE}

\* A run of the tool begins: Sync is called for the destination.
StartSync ==
    /\ pc \in Rest
    /\ pc' = "FindOrCreateCalendarByName"
    /\ local' = InitialLocal
    /\ calls' = << >>
    /\ \E interactive \in Terminals : world' = [world EXCEPT !.interactive = interactive]
    /\ obs' = [InitialObs(obs.externals, ScenarioAfter(obs.scenario, "pass", work)) EXCEPT
                  !.prev = obs.last,
                  !.untagged0 = \E i \in 1..Len(dest) :
                                    /\ WorkIDOf(dest[i].ev) = << >>
                                    /\ dest[i].ev \in Range(GetEvents(dest, now - Year, now + Year))
                                    /\ dest[i].ev \in Range(GetEvents(dest,
                                           wideTimeMinForSync(NowDay, world.config),
                                           wideTimeMaxForSync(NowDay, world.config)))]
    /\ UNCHANGED <<work, dest>>

\* s.personalClient.FindOrCreateCalendarByName; an error is returned.
FindOrCreateCalendarByName ==
    /\ pc = "FindOrCreateCalendarByName"
    /\ \E ok \in Network :
        LET nextpc == IF ~ok THEN "error"
                      ELSE IF world.destType = "google"
                           THEN "checkAndCreateTokenReminder" ELSE "checkExisting"
        IN  /\ pc' = nextpc
            /\ obs' = [ObsAfter(ok, ~ok, nextpc) EXCEPT
                          !.failedCalls = IF ok THEN @
                                          ELSE @ \cup {"FindOrCreateCalendarByName"}]
    /\ UNCHANGED <<world, work, dest, local, calls>>

\* checkAndCreateTokenReminder returns before it calls the client: the token
\* cannot be loaded, there is none, the token file cannot be examined, or
\* the reminder date is out of range.
ReminderSkipped ==
    /\ pc = "checkAndCreateTokenReminder"
    /\ ~world.token
    /\ pc' = "checkExisting"
    /\ UNCHANGED <<world, work, dest, local, calls, obs>>

\* A variant of ReminderFind in which Sync returns the error of the lookup.
ReminderFind_fatal ==
    /\ pc = "checkAndCreateTokenReminder"
    /\ world.token
    /\ \E ok \in Network :
        IF ok
        THEN /\ local' = [local EXCEPT
                            !.existingReminders = FindEventsByWorkID(dest, reminderWorkID)]
             /\ pc' = "upsertReminder"
             /\ obs' = obs
        ELSE /\ local' = local
             /\ pc' = "error"
             /\ obs' = [ObsAfter(FALSE, TRUE, "error") EXCEPT
                           !.failedCalls = @ \cup {"FindEventsByWorkID"}]
    /\ UNCHANGED <<world, work, dest, calls>>

\* checkAndCreateTokenReminder: s.personalClient.FindEventsByWorkID
ReminderFind ==
    /\ pc = "checkAndCreateTokenReminder"
    /\ world.token
    /\ \E ok \in Network :
        IF ok
        THEN /\ local' = [local EXCEPT
                            !.existingReminders = FindEventsByWorkID(dest, reminderWorkID)]
             /\ pc' = "upsertReminder"
             /\ obs' = obs
        ELSE /\ local' = local
             /\ pc' = "checkExisting"
             /\ obs' = [ObsAfter(FALSE, TRUE, "checkExisting") EXCEPT
                           !.failedCalls = @ \cup {"FindEventsByWorkID"}]
    /\ UNCHANGED <<world, work, dest, calls>>

\* checkAndCreateTokenReminder: update the first existing reminder, or
\* insert one; an error is logged by Sync.
ReminderUpsert ==
    /\ pc = "upsertReminder"
    /\ \E ok \in Network :
        LET existing == local.existingReminders
            result == IF Len(existing) > 0
                      THEN Outcome(ok, UpdateEvent(world.destType, dest, existing[1].Id,
                                                   reminderEvent, FreshNumber))
                      ELSE Outcome(ok, InsertEvent(world.destType, dest, reminderEvent,
                                                   FreshNumber))
            call == IF Len(existing) > 0
                    THEN CallOf("update", "reminder", existing[1].Id, reminderWorkID,
                                reminderEvent, result.err)
                    ELSE CallOf("insert", "reminder", << >>, reminderWorkID,
                                reminderEvent, result.err)
        IN  /\ dest' = result.store
            /\ calls' = Append(calls, call)
            /\ obs' = ObsAfter(ok, result.err, "checkExisting")
    /\ pc' = "checkExisting"
    /\ UNCHANGED <<world, work, local>>

\* The safety gate's listing: GetEvents from a year ago to a year from now.
\* When it fails a warning is logged and Sync continues.
CheckExistingEvents ==
    /\ pc = "checkExisting"
    /\ \E ok \in Network :
        IF ok
        THEN LET existingEvents ==
                     GetEvents(dest, now - Year, now + Year)
                 count == manuallyCreatedCount(existingEvents)
             IN  /\ local' = [local EXCEPT !.manuallyCreatedCount = count]
                 /\ pc' = IF count > 0 THEN "promptForConfirmation" ELSE "getSourceEvents"
                 /\ obs' = obs
        ELSE /\ local' = local
             /\ pc' = "getSourceEvents"
             /\ obs' = [ObsAfter(FALSE, TRUE, "getSourceEvents") EXCEPT
                           !.failedCalls = @ \cup {"GetEvents:existing"}]
    /\ UNCHANGED <<world, work, dest, calls>>

\* promptForConfirmation and the gate's decision: without a terminal
\* nothing is read; "sync cancelled by user" is returned unless confirmed.
ConfirmDeletion ==
    /\ pc = "promptForConfirmation"
    /\ \E input \in IF world.interactive THEN Inputs ELSE {NotAsked} :
        LET confirmed == promptForConfirmation(world.interactive, input)
            nextpc == IF confirmed THEN "getSourceEvents" ELSE "error"
        IN  /\ pc' = nextpc
            /\ obs' = [ObsAfter(TRUE, FALSE, nextpc) EXCEPT !.asked = world.interactive,
                                                            !.input = input,
                                                            !.decisions = @ + 1]
    /\ UNCHANGED <<world, work, dest, local, calls>>

\* sourceEventsMap[event.Id] = event for the filtered events, in order.
SourceEventsMapOf(filtered) ==
    [id \in {filtered[i].Id : i \in 1..Len(filtered)} |->
        filtered[CHOOSE i \in 1..Len(filtered) :
                     filtered[i].Id = id /\ \A j \in (i + 1)..Len(filtered) : filtered[j].Id # id]]

\* The methods Sync calls on the work client when the listing returns
\* sourceEvents: GetEvents, and GetEvent from isOutOfOffice for a timed
\* instance of a recurring event that is not itself marked out of office.
WorkClientCalls(sourceEvents) ==
    {"GetEvents"} \cup
        IF \E i \in 1..Len(sourceEvents) :
               /\ sourceEvents[i].Start.Date = << >>
               /\ sourceEvents[i].EventType # str_outOfOffice
               /\ sourceEvents[i].RecurringEventId # << >>
        THEN {"GetEvent"} ELSE {}

\* A variant of GetSourceEvents that removes from the work calendar the
\* events the filter drops.
GetSourceEvents_consuming ==
    /\ pc = "getSourceEvents"
    /\ \E ok \in Network :
        IF ok
        THEN LET sourceEvents == SelectSeq(work,
                     LAMBDA e : EndInstantOf(e) > timeMin /\ StartInstantOf(e) < timeMax)
                 filtered == filterEvents(sourceEvents, work)
             IN  /\ local' = [local EXCEPT !.filteredEvents = filtered,
                                           !.sourceEventsMap = SourceEventsMapOf(filtered)]
                 /\ pc' = "getDestEvents"
                 /\ obs' = [obs EXCEPT !.workCalls = WorkClientCalls(sourceEvents)]
                 /\ work' = filtered
        ELSE /\ local' = local
             /\ pc' = "error"
             /\ obs' = [ObsAfter(FALSE, TRUE, "error") EXCEPT
                           !.workCalls = {"GetEvents"},
                           !.failedCalls = @ \cup {"GetEvents:source"}]
             /\ work' = work
    /\ UNCHANGED <<world, dest, calls>>

\* s.workClient.GetEvents("primary", timeMin, timeMax), the filter and the
\* index of the filtered events; a listing error is returned.
GetSourceEvents ==
    /\ pc = "getSourceEvents"
    /\ \E ok \in Network :
        IF ok
        THEN LET sourceEvents == SelectSeq(work,
                     LAMBDA e : EndInstantOf(e) > timeMin /\ StartInstantOf(e) < timeMax)
                 filtered == filterEvents(sourceEvents, work)
             IN  /\ local' = [local EXCEPT !.filteredEvents = filtered,
                                           !.sourceEventsMap = SourceEventsMapOf(filtered)]
                 /\ pc' = "getDestEvents"
                 /\ obs' = [obs EXCEPT !.workCalls = WorkClientCalls(sourceEvents)]
        ELSE /\ local' = local
             /\ pc' = "error"
             /\ obs' = [ObsAfter(FALSE, TRUE, "error") EXCEPT
                           !.workCalls = {"GetEvents"},
                           !.failedCalls = @ \cup {"GetEvents:source"}]
    /\ UNCHANGED <<world, work, dest, calls>>

\* destEventsByWorkID: the listed events that carry a workEventId, by key.
GroupByWorkID(events) ==
    [k \in {WorkIDOf(events[i]) : i \in 1..Len(events)} \ {<< >>} |->
        SelectSeq(events, LAMBDA e : WorkIDOf(e) = k)]

\* A variant of GetDestEvents that lists the sync window only.
GetDestEvents_narrow ==
    /\ pc = "getDestEvents"
    /\ \E ok \in Network :
        IF ok
        THEN LET destEvents == GetEvents(dest, timeMin, timeMax)
                 groups == GroupByWorkID(destEvents)
                 l == [local EXCEPT
                         !.destEvents = destEvents,
                         !.eventsWithoutWorkID =
                             SelectSeq(destEvents, LAMBDA e : WorkIDOf(e) = << >>),
                         !.destEventsByWorkID = groups,
                         !.todo = DOMAIN groups]
             IN  /\ local' = l
                 /\ pc' = Continue(l)
                 /\ obs' = ObsAfter(TRUE, FALSE, Continue(l))
        ELSE /\ local' = local
             /\ pc' = "error"
             /\ obs' = [ObsAfter(FALSE, TRUE, "error") EXCEPT
                           !.failedCalls = @ \cup {"GetEvents:destination"}]
    /\ UNCHANGED <<world, work, dest, calls>>

\* s.personalClient.GetEvents over the wide range and the partition of the
\* listing; a listing error is returned.
GetDestEvents ==
    /\ pc = "getDestEvents"
    /\ \E ok \in Network :
        IF ok
        THEN LET destEvents == GetEvents(dest, wideTimeMinForSync(NowDay, world.config),
                                         wideTimeMaxForSync(NowDay, world.config))
                 groups == GroupByWorkID(destEvents)
                 l == [local EXCEPT
                         !.destEvents = destEvents,
                         !.eventsWithoutWorkID =
                             SelectSeq(destEvents, LAMBDA e : WorkIDOf(e) = << >>),
                         !.destEventsByWorkID = groups,
                         !.todo = DOMAIN groups]
             IN  /\ local' = l
                 /\ pc' = Continue(l)
                 /\ obs' = ObsAfter(TRUE, FALSE, Continue(l))
        ELSE /\ local' = local
             /\ pc' = "error"
             /\ obs' = [ObsAfter(FALSE, TRUE, "error") EXCEPT
                           !.failedCalls = @ \cup {"GetEvents:destination"}]
    /\ UNCHANGED <<world, work, dest, calls>>

\* A variant of DeleteUntagged that returns the error of a failed delete.
DeleteUntagged_fatal ==
    /\ pc = "deleteUntagged"
    /\ \E ok \in Network :
        LET destEvent == Head(local.eventsWithoutWorkID)
            result == Outcome(ok, DeleteEvent(world.destType, dest, destEvent.Id))
            l == [local EXCEPT !.eventsWithoutWorkID = Tail(@)]
            nextpc == IF result.err THEN "error" ELSE Continue(l)
        IN  /\ dest' = result.store
            /\ calls' = Append(calls, CallOf("delete", "untagged", destEvent.Id, << >>,
                                             destEvent, result.err))
            /\ local' = l
            /\ pc' = nextpc
            /\ obs' = ObsAfter(ok, result.err, nextpc)
    /\ UNCHANGED <<world, work>>

\* One iteration of the loop that deletes the manually created events.
DeleteUntagged ==
    /\ pc = "deleteUntagged"
    /\ \E ok \in Network :
        LET destEvent == Head(local.eventsWithoutWorkID)
            result == Outcome(ok, DeleteEvent(world.destType, dest, destEvent.Id))
            l == [local EXCEPT !.eventsWithoutWorkID = Tail(@)]
        IN  /\ dest' = result.store
            /\ calls' = Append(calls, CallOf("delete", "untagged", destEvent.Id, << >>,
                                             destEvent, result.err))
            /\ local' = l
            /\ pc' = Continue(l)
            /\ obs' = ObsAfter(ok, result.err, Continue(l))
    /\ UNCHANGED <<world, work>>

\* The start time the group loop compares with the sync window: the zero
\* time when the event has none that parses.
InSyncWindow(event) ==
    LET known == /\ ~event.Start.nil
                 /\ \/ (event.Start.DateTime # << >> /\ ParsesRFC3339(event.Start.DateTime))
                    \/ (event.Start.DateTime = << >> /\ event.Start.Date # << >>
                        /\ ParsesDate(event.Start.Date))
    IN  /\ known
        /\ StartInstantOf(event) >= timeMin
        /\ StartInstantOf(event) < timeMax

\* A variant of Representative that takes the first event of the group.
Representative_first(allDestEventsWithSameWorkID) == allDestEventsWithSameWorkID[1]

\* The destination event the group loop compares and updates.
Representative(allDestEventsWithSameWorkID) ==
    LET destEventsWithSameWorkID == SelectSeq(allDestEventsWithSameWorkID, InSyncWindow)
    IN  IF Len(destEventsWithSameWorkID) > 0
        THEN destEventsWithSameWorkID[1]
        ELSE allDestEventsWithSameWorkID[1]

\* A variant of GroupMatched that updates the representative without
\* comparing it.
GroupMatched_always ==
    /\ pc = "groups"
    /\ \E workID \in local.todo \cap DOMAIN local.sourceEventsMap, ok \in Network :
        LET sourceEvent == local.sourceEventsMap[workID]
            destEvent == Representative(local.destEventsByWorkID[workID])
            preparedEvent == prepareSyncEvent(sourceEvent)
            result == Outcome(ok, UpdateEvent(world.destType, dest, destEvent.Id,
                                              preparedEvent, FreshNumber))
            l == [local EXCEPT
                    !.todo = @ \ {workID},
                    !.sourceEventsMap = [k \in DOMAIN @ \ {workID} |-> @[k]]]
        IN  /\ dest' = result.store
            /\ calls' = Append(calls, CallOf("update", "group", destEvent.Id, workID,
                                             preparedEvent, result.err))
            /\ local' = l
            /\ pc' = Continue(l)
            /\ obs' = ObsAfter(ok, result.err, Continue(l))
    /\ UNCHANGED <<world, work>>

\* A variant of GroupMatched that leaves the key in sourceEventsMap.
GroupMatched_keeping ==
    /\ pc = "groups"
    /\ \E workID \in local.todo \cap DOMAIN local.sourceEventsMap, ok \in Network :
        LET sourceEvent == local.sourceEventsMap[workID]
            destEvent == Representative(local.destEventsByWorkID[workID])
            preparedEvent == prepareSyncEvent(sourceEvent)
            equal == eventsEqual(destEvent, preparedEvent)
            result == IF equal THEN Succeeded(dest)
                      ELSE Outcome(ok, UpdateEvent(world.destType, dest, destEvent.Id,
                                                   preparedEvent, FreshNumber))
            l == [local EXCEPT !.todo = @ \ {workID}]
        IN  /\ equal => ok
            /\ dest' = result.store
            /\ calls' = IF equal THEN calls
                        ELSE Append(calls, CallOf("update", "group", destEvent.Id, workID,
                                                  preparedEvent, result.err))
            /\ local' = l
            /\ pc' = Continue(l)
            /\ obs' = ObsAfter(ok, result.err, Continue(l))
    /\ UNCHANGED <<world, work>>

\* The group loop, for a key that is in sourceEventsMap: update the
\* representative if it differs from the prepared event, consume the key.
\* The order of the groups is the iteration order of a Go map.
GroupMatched ==
    /\ pc = "groups"
    /\ \E workID \in local.todo \cap DOMAIN local.sourceEventsMap, ok \in Network :
        LET sourceEvent == local.sourceEventsMap[workID]
            destEvent == Representative(local.destEventsByWorkID[workID])
            preparedEvent == prepareSyncEvent(sourceEvent)
            equal == eventsEqual(destEvent, preparedEvent)
            result == IF equal THEN Succeeded(dest)
                      ELSE Outcome(ok, UpdateEvent(world.destType, dest, destEvent.Id,
                                                   preparedEvent, FreshNumber))
            l == [local EXCEPT
                    !.todo = @ \ {workID},
                    !.sourceEventsMap = [k \in DOMAIN @ \ {workID} |-> @[k]]]
        IN  /\ equal => ok
            /\ dest' = result.store
            /\ calls' = IF equal THEN calls
                        ELSE Append(calls, CallOf("update", "group", destEvent.Id, workID,
                                                  preparedEvent, result.err))
            /\ local' = l
            /\ pc' = Continue(l)
            /\ obs' = ObsAfter(ok, result.err, Continue(l))
    /\ UNCHANGED <<world, work>>

\* A variant of GroupStale that deletes the first event of the group only.
GroupStale_first ==
    /\ pc = "groups"
    /\ \E workID \in local.todo \ DOMAIN local.sourceEventsMap :
        LET l == [local EXCEPT !.todo = @ \ {workID},
                               !.stale = <<local.destEventsByWorkID[workID][1]>>]
        IN  /\ local' = l
            /\ pc' = Continue(l)
    /\ UNCHANGED <<world, work, dest, calls, obs>>

\* The group loop, for a key that is not in sourceEventsMap: every event
\* of the group is to be deleted.
GroupStale ==
    /\ pc = "groups"
    /\ \E workID \in local.todo \ DOMAIN local.sourceEventsMap :
        LET l == [local EXCEPT !.todo = @ \ {workID},
                               !.stale = local.destEventsByWorkID[workID]]
        IN  /\ local' = l
            /\ pc' = Continue(l)
    /\ UNCHANGED <<world, work, dest, calls, obs>>

\* One iteration of the loop that deletes the events of a stale group.
DeleteStale ==
    /\ pc = "deleteStale"
    /\ \E ok \in Network :
        LET destEvent == Head(local.stale)
            result == Outcome(ok, DeleteEvent(world.destType, dest, destEvent.Id))
            l == [local EXCEPT !.stale = Tail(@)]
        IN  /\ dest' = result.store
            /\ calls' = Append(calls, CallOf("delete", "group", destEvent.Id,
                                             WorkIDOf(destEvent), destEvent, result.err))
            /\ local' = l
            /\ pc' = Continue(l)
            /\ obs' = ObsAfter(ok, result.err, Continue(l))
    /\ UNCHANGED <<world, work>>

\* destEventsByWorkID[workID]: nil for a key the map does not hold
GroupOf(groups, workID) ==
    IF workID \in DOMAIN groups THEN groups[workID] ELSE << >>

\* The loop over the duplicates in the loop over the remaining source
\* events: DeleteEvent for each, in order.
RECURSIVE DeleteDuplicates(_, _, _, _, _)
DeleteDuplicates(destType, store, events, workID, ok) ==
    IF events = << >> THEN [store |-> store, calls |-> << >>]
    ELSE LET result == IF ok THEN DeleteEvent(destType, store, Head(events).Id)
                       ELSE Failed(store)
             rest == DeleteDuplicates(destType, result.store, Tail(events), workID, ok)
         IN  [store |-> rest.store,
              calls |-> <<CallOf("delete", "remaining", Head(events).Id, workID,
                                 Head(events), result.err)>> \o rest.calls]

\* One iteration of the loop over the source events that are left in
\* sourceEventsMap.  The entry is taken out of the map as it is visited.
InsertRemaining ==
    /\ pc = "remaining"
    /\ \E id \in DOMAIN local.sourceEventsMap, ok \in Network :
        LET newEvent == local.sourceEventsMap[id]
            preparedEvent == prepareSyncEvent(newEvent)
            workID == WorkIDOf(preparedEvent)
            destEventsForWorkID == GroupOf(local.destEventsByWorkID, workID)
            deleted == IF Len(destEventsForWorkID) > 1
                       THEN DeleteDuplicates(world.destType, dest, destEventsForWorkID,
                                             workID, ok)
                       ELSE [store |-> dest, calls |-> << >>]
            result == IF Len(destEventsForWorkID) >= 1
                      THEN IF ok
                           THEN UpdateEvent(world.destType, deleted.store,
                                            destEventsForWorkID[1].Id, preparedEvent,
                                            FreshNumber)
                           ELSE Failed(deleted.store)
                      ELSE Outcome(ok, InsertEvent(world.destType, dest, preparedEvent,
                                                   FreshNumber))
            call == IF Len(destEventsForWorkID) >= 1
                    THEN CallOf("update", "remaining", destEventsForWorkID[1].Id, workID,
                                preparedEvent, result.err)
                    ELSE CallOf("insert", "remaining", << >>, workID, preparedEvent,
                                result.err)
            l == [local EXCEPT !.sourceEventsMap = [k \in DOMAIN @ \ {id} |-> @[k]]]
        IN  /\ dest' = result.store
            /\ calls' = calls \o deleted.calls \o <<call>>
            /\ local' = l
            /\ pc' = Continue(l)
            /\ obs' = ObsAfter(ok, result.err \/ \E i \in 1..Len(deleted.calls) :
                                                     deleted.calls[i].err,
                               Continue(l))
    /\ UNCHANGED <<world, work>>

\* The process is stopped while a pass is under way.
Abort ==
    /\ pc \notin Rest
    /\ pc' = "aborted"
    /\ local' = InitialLocal
    /\ calls' = << >>
    /\ obs' = [InitialObs(obs.externals, "off") EXCEPT !.last = "aborted"]
    /\ UNCHANGED <<world, work, dest>>

\* ------------------------------------------------------- the environment

\* The work calendar as a list: event A, if any, before event B.
WorkCalendars ==
    {<< >>} \cup {<<WorkEventA(v)>> : v \in VersionsA}
            \cup {<<WorkEventB>>, <<WorkEventA("10:00"), WorkEventB>>}

\* Between two passes the owner of the work calendar creates, changes or
\* deletes events.
SourceChange ==
    /\ pc \in Rest
    /\ \E w \in WorkCalendars \ {work} :
        /\ work' = w
        /\ obs' = InitialObs(obs.externals, ScenarioAfter(obs.scenario, "change", w))
    /\ pc' = "idle"
    /\ local' = InitialLocal
    /\ calls' = << >>
    /\ UNCHANGED <<world, dest>>

\* Between two passes another party writes an event into the destination
\* calendar.
ExternalWrite ==
    /\ pc \in Rest
    /\ obs.externals < MaxExternal
    /\ Len(dest) < MaxDest
    /\ \E e \in ExternalEvents :
        dest' = InsertEvent(world.destType, dest, e, FreshNumber).store
    /\ pc' = "idle"
    /\ local' = InitialLocal
    /\ calls' = << >>
    /\ obs' = InitialObs(obs.externals + 1, "off")
    /\ UNCHANGED <<world, work>>

Next ==
    \/ StartSync
    \/ FindOrCreateCalendarByName
    \/ ReminderSkipped
    \/ ReminderFind
    \/ ReminderUpsert
    \/ CheckExistingEvents
    \/ ConfirmDeletion
    \/ GetSourceEvents
    \/ GetDestEvents
    \/ DeleteUntagged
    \/ GroupMatched
    \/ GroupStale
    \/ DeleteStale
    \/ InsertRemaining
    \/ Abort
    \/ SourceChange
    \/ ExternalWrite

Spec == Init /\ [][Next]_vars

\* ------------------------------------------------- a pass and its context

\* The context passed to Sync is cancelled while the pass is under way.
\* Sync hands the context to checkAndCreateTokenReminder and neither reads
\* it; no method of CalendarClient takes one.  So no step of the pass
\* depends on the cancellation.
Cancel ==
    /\ pc \notin Rest
    /\ obs.cancelledAt = << >>
    /\ obs' = [obs EXCEPT !.cancelledAt = <<Len(calls)>>]
    /\ UNCHANGED <<world, work, dest, pc, local, calls>>

\* Runs of the tool over calendars that nobody changes in between: the
\* work calendar holds any of the calendars of WorkCalendars, the
\* destination is empty or holds a manually created event.
CancelInit ==
    /\ world \in [destType : {"google", "apple"},
                  token : BOOLEAN,
                  interactive : {FALSE},
                  config : {DefaultConfig}]
    /\ world.destType = "apple" => ~world.token
    /\ work \in WorkCalendars
    /\ dest \in {<< >>, InsertEvent(world.destType, << >>, ManualEvent, 1).store}
    /\ pc = "idle"
    /\ local = InitialLocal
    /\ calls = << >>
    /\ obs = InitialObs(Len(dest), "off")

CancelNext ==
    \/ StartSync
    \/ FindOrCreateCalendarByName
    \/ ReminderSkipped
    \/ ReminderFind
    \/ ReminderUpsert
    \/ CheckExistingEvents
    \/ ConfirmDeletion
    \/ GetSourceEvents
    \/ GetDestEvents
    \/ DeleteUntagged
    \/ GroupMatched
    \/ GroupStale
    \/ DeleteStale
    \/ InsertRemaining
    \/ Cancel

CancelSpec == CancelInit /\ [][CancelNext]_vars

\* ------------------------------------------------------- the orchestrator

\* func main of cmd/calsync, from the loading of the configuration to the
\* exit of the process.  Here world is what main is started with (the
\* destinations of the configuration file, the --destination flag, the
\* state of the work account's token), pc is the position of main, local
\* holds cfg.Destinations, destinations, the index of the loop and
\* syncErrors, calls lists the authentications, client constructions and
\* Sync calls main has made (who is the position of the destination in the
\* loop, 0 for the work account), and obs is what an observer records: why the
\* process stopped, its exit code, and how each destination fared.  A pass
\* is seen through the value Sync returns.

MaxDestinations == 2

\* fmt.Sprintf("Destination %d", i+1), by position in the list
DefaultNames == <<"Destination 1", "Destination 2", "Destination 3">>

DestinationTypes == {"google", "apple", "outlook"}
DestinationNames == {"", "home"}
Selectors == {"", "home", "Destination 2", "nowhere"}

\* The lists of destinations a configuration file may give.
ConfiguredDestinations ==
    UNION {[1..n -> [Name : DestinationNames, Type : DestinationTypes]] :
               n \in 0..MaxDestinations}

MainLocal == [Destinations |-> << >>, destinations |-> << >>, i |-> 1, syncErrors |-> << >>]
MainObs == [cause |-> "none", exit |-> "none", outcome |-> << >>]

MainInit ==
    /\ world \in [Destinations : ConfiguredDestinations,
                  destinationName : Selectors,
                  workToken : {"valid", "expired", "none"}]
    /\ work = << >>
    /\ dest = << >>
    /\ pc = "LoadConfig"
    /\ local = MainLocal
    /\ calls = << >>
    /\ obs = MainObs

\* log.Fatalf: the message is logged and the process exits with code 1.
Fatalf(cause) ==
    /\ pc' = "fatal"
    /\ obs' = [obs EXCEPT !.cause = cause, !.exit = "1"]

\* config.LoadConfig, the validation of the destinations: the list is not
\* empty, an empty name gets its default, the type is google or apple.
Main_LoadConfig ==
    /\ pc = "LoadConfig"
    /\ LET ds == world.Destinations
           invalid == {i \in 1..Len(ds) : ds[i].Type # "google" /\ ds[i].Type # "apple"}
       IN  IF Len(ds) = 0
           THEN Fatalf("no destinations") /\ local' = local
           ELSE IF invalid # {}
           THEN Fatalf("invalid type") /\ local' = local
           ELSE /\ local' = [local EXCEPT !.Destinations =
                                [i \in 1..Len(ds) |->
                                    [ds[i] EXCEPT !.Name = IF @ = "" THEN DefaultNames[i]
                                                           ELSE @]]]
                /\ pc' = "LoadGoogleCredentials"
                /\ obs' = obs
    /\ UNCHANGED <<world, work, dest, calls>>

\* config.LoadGoogleCredentials reads a file.
Main_LoadGoogleCredentials ==
    /\ pc = "LoadGoogleCredentials"
    /\ \E ok \in BOOLEAN :
        IF ok THEN pc' = "GetAuthenticatedClient" /\ obs' = obs
        ELSE Fatalf("credentials")
    /\ UNCHANGED <<world, work, dest, local, calls>>

\* auth.GetAuthenticatedClient for the work account: a token that is still
\* valid is used as it is; an expired one is refreshed over the network;
\* without a token the OAuth flow is run.
Main_GetAuthenticatedClient ==
    /\ pc = "GetAuthenticatedClient"
    /\ \E ok \in IF world.workToken = "valid" THEN {TRUE} ELSE BOOLEAN :
        /\ calls' = Append(calls, [op |-> "GetAuthenticatedClient", who |-> 0,
                                   network |-> world.workToken # "valid"])
        /\ IF ok THEN pc' = "NewClient" /\ obs' = obs
           ELSE Fatalf("work authentication")
    /\ UNCHANGED <<world, work, dest, local>>

\* calclient.NewClient for the work account
Main_NewClient ==
    /\ pc = "NewClient"
    /\ \E ok \in BOOLEAN :
        /\ calls' = Append(calls, [op |-> "NewClient", who |-> 0, network |-> FALSE])
        /\ IF ok THEN pc' = "filter" /\ obs' = obs
           ELSE Fatalf("work client")
    /\ UNCHANGED <<world, work, dest, local>>

\* The --destination flag: the first destination of that name, or all.
Main_FilterDestinations ==
    /\ pc = "filter"
    /\ LET all == local.Destinations
           found == {i \in 1..Len(all) : all[i].Name = world.destinationName}
           first == CHOOSE i \in found : \A k \in found : i <= k
       IN  IF world.destinationName = ""
           THEN /\ local' = [local EXCEPT !.destinations = all]
                /\ pc' = "loop"
                /\ obs' = obs
           ELSE IF found = {}
           THEN Fatalf("destination not found") /\ local' = local
           ELSE /\ local' = [local EXCEPT !.destinations = <<all[first]>>]
                /\ pc' = "loop"
                /\ obs' = obs
    /\ UNCHANGED <<world, work, dest, calls>>

\* syncErrors = append(syncErrors, fmt.Errorf("%s: %w", dest.Name, err))
AppendError(syncErrors, name, err) == Append(syncErrors, [name |-> name, err |-> err])

\* The head of the loop body: the client of the destination is made.
\* NewAppleCalendarClient discovers the principal on the server;
\* GetAuthenticatedClient and NewClient serve a Google destination.  On an
\* error the loop continues with the next destination.
Main_CreateClient ==
    /\ pc = "loop"
    /\ local.i <= Len(local.destinations)
    /\ LET d == local.destinations[local.i]
       IN  \E err \in IF d.Type = "apple" THEN {"none", "client"}
                      ELSE {"none", "authenticate", "client"} :
              /\ calls' = Append(calls,
                     [op |-> IF d.Type = "apple" THEN "NewAppleCalendarClient"
                             ELSE "GetAuthenticatedClient",
                      who |-> local.i, network |-> TRUE])
              /\ IF err = "none"
                 THEN /\ pc' = "Sync"
                      /\ local' = local
                      /\ obs' = obs
                 ELSE /\ pc' = "loop"
                      /\ local' = [local EXCEPT
                            !.syncErrors = AppendError(@, d.Name, err),
                            !.i = @ + 1]
                      /\ obs' = [obs EXCEPT !.outcome = Append(@, err)]
    /\ UNCHANGED <<world, work, dest>>

\* A variant of Main_Sync that leaves the loop when Sync returns an error.
Main_Sync_break ==
    /\ pc = "Sync"
    /\ LET d == local.destinations[local.i]
       IN  \E err \in {"none", "sync"} :
              /\ calls' = Append(calls, [op |-> "Sync", who |-> local.i, network |-> TRUE])
              /\ local' = [local EXCEPT
                    !.syncErrors = IF err = "none" THEN @ ELSE AppendError(@, d.Name, err),
                    !.i = IF err = "none" THEN @ + 1 ELSE Len(local.destinations) + 1]
              /\ obs' = [obs EXCEPT !.outcome = Append(@, err)]
    /\ pc' = "loop"
    /\ UNCHANGED <<world, work, dest>>

\* sync.NewSyncer and syncer.Sync(ctx): nil or an error, which is logged
\* and collected; the loop continues.
Main_Sync ==
    /\ pc = "Sync"
    /\ LET d == local.destinations[local.i]
       IN  \E err \in {"none", "sync"} :
              /\ calls' = Append(calls, [op |-> "Sync", who |-> local.i, network |-> TRUE])
              /\ local' = [local EXCEPT
                    !.syncErrors = IF err = "none" THEN @ ELSE AppendError(@, d.Name, err),
                    !.i = @ + 1]
              /\ obs' = [obs EXCEPT !.outcome = Append(@, err)]
    /\ pc' = "loop"
    /\ UNCHANGED <<world, work, dest>>

\* After the loop: os.Exit(1) when an error was collected, else main
\* returns.
Main_Report ==
    /\ pc = "loop"
    /\ local.i > Len(local.destinations)
    /\ pc' = "exited"
    /\ obs' = [obs EXCEPT !.exit = IF Len(local.syncErrors) > 0 THEN "1" ELSE "0"]
    /\ UNCHANGED <<world, work, dest, local, calls>>

MainNext ==
    \/ Main_LoadConfig
    \/ Main_LoadGoogleCredentials
    \/ Main_GetAuthenticatedClient
    \/ Main_NewClient
    \/ Main_FilterDestinations
    \/ Main_CreateClient
    \/ Main_Sync
    \/ Main_Report

MainSpec == MainInit /\ [][MainNext]_vars

\* ------------------------------------------------ the filter on its own

\* Syncer.filterEvents called on a list of source events, with a work
\* client whose calendar holds the parents of recurring events.  Here world
\* is the argument and the client's calendar, pc tells whether the call has
\* returned, local holds the list returned.

id_E == <<"E">>
id_P == <<"P">>

\* Titles: plain, with an out-of-office keyword, with a work-location
\* pattern, with both.
FilterTitles ==
    {<< >>,
     <<"S", "t", "a", "n", "d", "u", "p">>,
     <<"V", "a", "c", "a", "t", "i", "o", "n">>,
     <<"R", "e", "m", "o", "t", "e">>,
     <<"O", "u", "t", " ", "o", "f", " ", "O", "f", "f", "i", "c", "e">>,
     <<"O", "f", "f", "i", "c", "e">>,
     <<"O", "O", "F", " ", "r", "e", "m", "o", "t", "e">>,
     <<"T", "e", "a", "m", " ", "P", "T", "O">>}

\* Starts and ends of timed events on the day NowDay and the next, as
\* minutes since midnight.
FilterStartMinutes == {60, 300, 330, 360, 720, 1410}
FilterEndMinutes == {300, 330, 360, 390, 780, 1439}
FilterNextDayEndMinutes == {0, 120, 360, 420}
Unparseable == <<"x">>

FilterStarts ==
    {Timed(NowDay, m, 0) : m \in FilterStartMinutes}
        \cup {[nil |-> FALSE, Date |-> << >>, DateTime |-> Unparseable]}
FilterEnds ==
    {Timed(NowDay, m, 0) : m \in FilterEndMinutes}
        \cup {Timed(NowDay + 1, m, 0) : m \in FilterNextDayEndMinutes}
        \cup {[nil |-> FALSE, Date |-> << >>, DateTime |-> Unparseable]}

\* The events the filter is given: all-day events, and timed events that
\* end after they start or have a time that does not parse.
FilterEvents ==
    LET flagged(e) == {[e EXCEPT !.EventType = t, !.Transparency = tr, !.RecurringEventId = r] :
                          t \in {<< >>, str_outOfOffice},
                          tr \in {<< >>, str_transparent},
                          r \in {<< >>, id_P}}
        timed == {NewEvent(id_E, title, start, end) :
                      title \in FilterTitles, start \in FilterStarts, end \in FilterEnds}
        ordered == {e \in timed :
                       (ParsesRFC3339(e.Start.DateTime) /\ ParsesRFC3339(e.End.DateTime))
                           => InstantOf(e.Start.DateTime) < InstantOf(e.End.DateTime)}
        allDay == {NewEvent(id_E, title, AllDay(NowDay), AllDay(NowDay + 1)) :
                       title \in FilterTitles}
    IN  UNION {flagged(e) : e \in ordered \cup allDay}

\* The calendars of the work client: without the parent (the lookup
\* fails), or with a parent that is plain, out of office, or transparent.
FilterClients ==
    LET parent == NewEvent(id_P, title_Planning, Timed(NowDay - 7, 600, 0),
                           Timed(NowDay - 7, 660, 0))
    IN  {<< >>, <<parent>>, <<[parent EXCEPT !.EventType = str_outOfOffice]>>,
         <<[parent EXCEPT !.Transparency = str_transparent]>>}

FilterInit ==
    /\ world \in [events : {<<e>> : e \in FilterEvents},
                  client : FilterClients]
    /\ (\A i \in 1..Len(world.events) : world.events[i].RecurringEventId = << >>)
           => world.client = << >>
    /\ work = << >>
    /\ dest = << >>
    /\ pc = "filterEvents"
    /\ local = << >>
    /\ calls = << >>
    /\ obs = << >>

\* filtered := s.filterEvents(sourceEvents)
CallFilterEvents ==
    /\ pc = "filterEvents"
    /\ local' = filterEvents(world.events, world.client)
    /\ pc' = "returned"
    /\ UNCHANGED <<world, work, dest, calls, obs>>

FilterNext == CallFilterEvents

FilterSpec == FilterInit /\ [][FilterNext]_vars

\* ------------------------------------------------ the window on its own

\* The sync window from the configuration file to Sync: LoadConfig sets the
\* default, Sync computes timeMin and timeMax from time.Now().  Here world
\* is the clock and sync_window_weeks and sync_window_weeks_past as
\* configured, pc the position, local the loaded configuration and the
\* window computed.

MaxWeeks == 3
MaxWeeksPast == 2

SecondsPerDay == MinutesPerDay * SecondsPerMinute

\* time.Now(): every weekday, at midnight, in the morning, at the last second
WindowNows ==
    {At(NowDay + k, sec) : k \in 0..6, sec \in {0, NowSecond, EndOfDay}}

\* LoadConfig: "Default sync window to 2 weeks forward"
ApplyWindowDefault(config) ==
    IF config.SyncWindowWeeks = 0 THEN [config EXCEPT !.SyncWindowWeeks = 2] ELSE config

WindowInit ==
    /\ world \in [now : WindowNows,
                  SyncWindowWeeks : 0..MaxWeeks,
                  SyncWindowWeeksPast : 0..MaxWeeksPast]
    /\ work = << >>
    /\ dest = << >>
    /\ pc = "LoadConfig"
    /\ local = << >>
    /\ calls = << >>
    /\ obs = << >>

\* config.LoadConfig, as far as the window is concerned
Window_LoadConfig ==
    /\ pc = "LoadConfig"
    /\ local' = [config |-> ApplyWindowDefault(
                                [SyncWindowWeeks |-> world.SyncWindowWeeks,
                                 SyncWindowWeeksPast |-> world.SyncWindowWeeksPast])]
    /\ pc' = "Sync"
    /\ UNCHANGED <<world, work, dest, calls, obs>>

\* Sync: the window calculation
Window_Sync ==
    /\ pc = "Sync"
    /\ LET nowDay == world.now \div SecondsPerDay
       IN  local' = [config |-> local.config,
                     timeMin |-> timeMinOf(nowDay, local.config),
                     timeMax |-> timeMaxOf(nowDay, local.config)]
    /\ pc' = "returned"
    /\ UNCHANGED <<world, work, dest, calls, obs>>

WindowNext ==
    \/ Window_LoadConfig
    \/ Window_Sync

WindowSpec == WindowInit /\ [][WindowNext]_vars

\* ------------------------------------------- the CalDAV client on its own

\* An insert, a listing and an update on an empty CalDAV calendar, as
\* TestAppleCalendar_Update performs them: the event inserted and the event
\* passed to UpdateEvent carry the tracking key id_A; their Id fields vary.
id_X == <<"X">>
id_Y == <<"Y">>
AppleInsertedIds == {<< >>, id_X}
AppleUpdatedIds == {<< >>, id_X, id_Y, <<"u", IdDigits[1]>>}
AppleEvent(id, summary, startMinute) ==
    [NewEvent(id, summary, Timed(NowDay + 1, startMinute, 0),
              Timed(NowDay + 1, startMinute + 60, 0))
        EXCEPT !.Private = PrivateOf(id_A)]
AppleInserted ==
    {AppleEvent(id, summary, 600) :
        id \in AppleInsertedIds, summary \in {title_Standup, title_Planning}}
AppleUpdated ==
    {AppleEvent(id, summary, m) :
        id \in AppleUpdatedIds, summary \in {title_Standup, title_Review}, m \in {600, 630}}

AppleInit ==
    /\ world \in [inserted : AppleInserted, updated : AppleUpdated]
    /\ dest = << >>
    /\ pc = "InsertEvent"
    /\ local = << >>
    /\ work = << >>
    /\ calls = << >>
    /\ obs = << >>

\* client.InsertEvent(calendarID, testEvent)
Apple_InsertEvent ==
    /\ pc = "InsertEvent"
    /\ LET r == AppleInsertEvent(dest, world.inserted, 1)
       IN  /\ dest' = r.store
           /\ pc' = IF r.err THEN "failed" ELSE "GetEvents"
    /\ UNCHANGED <<world, work, local, calls, obs>>

\* client.GetEvents and the search for the event with the tracking key
Apple_GetEvents ==
    /\ pc = "GetEvents"
    /\ LET events == GetEvents(dest, At(NowDay + 1, 0), At(NowDay + 2, 0))
           found == SelectSeq(events, LAMBDA e : WorkIDOf(e) = id_A)
       IN  IF found = << >>
           THEN /\ pc' = "failed"
                /\ local' = local
           ELSE /\ pc' = "UpdateEvent"
                /\ local' = [eventToUpdate |-> found[1]]
    /\ UNCHANGED <<world, work, dest, calls, obs>>

\* client.UpdateEvent(calendarID, eventToUpdate.Id, updatedEvent)
Apple_UpdateEvent ==
    /\ pc = "UpdateEvent"
    /\ LET r == AppleUpdateEvent(dest, local.eventToUpdate.Id, world.updated, 2)
       IN  /\ dest' = r.store
           /\ pc' = IF r.err THEN "failed" ELSE "updated"
    /\ UNCHANGED <<world, work, local, calls, obs>>

AppleNext ==
    \/ Apple_InsertEvent
    \/ Apple_GetEvents
    \/ Apple_UpdateEvent

AppleSpec == AppleInit /\ [][AppleNext]_vars

\* ------------------------------------------ the configuration on its own

\* LoadConfig called with a configuration file, an environment and flags.
\* A Config that was not loaded is the zero value; a nil *Config is << >>.
ZeroConfig ==
    [WorkTokenPath |-> "", WorkEmail |-> "", GoogleCredentialsPath |-> "",
     IncludeOOO |-> FALSE, Destinations |-> << >>,
     SyncWindowWeeks |-> 0, SyncWindowWeeksPast |-> 0]
NilConfig == << >>

ConfigDestination(name, type, tokenPath, serverURL, username, password) ==
    [Name |-> name, Type |-> type, TokenPath |-> tokenPath, CalendarName |-> "",
     CalendarColorID |-> "", ServerURL |-> serverURL, Username |-> username,
     Password |-> password]
GoogleDestination == ConfigDestination("Test", "google", "/file/personal_token.json", "", "", "")
AppleDestination == ConfigDestination("", "apple", "", "https://caldav", "me", "secret")

\* The destinations arrays a configuration file may hold.
ConfigDestinationLists ==
    {<< >>,
     <<GoogleDestination>>,
     <<GoogleDestination, AppleDestination>>,
     <<[GoogleDestination EXCEPT !.Type = "outlook"]>>,
     <<[GoogleDestination EXCEPT !.TokenPath = ""]>>,
     <<AppleDestination, [AppleDestination EXCEPT !.Password = ""]>>}

\* The file named by --config: none was named, it cannot be read or
\* parsed, or it holds a configuration.
NoConfigFile == [given |-> FALSE, err |-> FALSE, config |-> ZeroConfig]
BadConfigFile == [given |-> TRUE, err |-> TRUE, config |-> ZeroConfig]
ConfigFiles ==
    {NoConfigFile, BadConfigFile} \cup
    {[given |-> TRUE, err |-> FALSE,
      config |-> [ZeroConfig EXCEPT !.WorkTokenPath = w, !.WorkEmail = e,
                                    !.GoogleCredentialsPath = g, !.Destinations = ds]] :
         w \in {"", "/file/work_token.json"}, e \in {"", "file@work"},
         g \in {"", "/file/credentials.json"}, ds \in ConfigDestinationLists}

Environments ==
    [WORK_TOKEN_PATH : {"", "/env/work_token.json"},
     WORK_EMAIL : {"", "env@work"},
     GOOGLE_CREDENTIALS_PATH : {"", "/env/credentials.json"},
     INCLUDE_OOO : {"", "true", "maybe"},
     SYNC_WINDOW_WEEKS : {"", "3", "x"},
     SYNC_WINDOW_WEEKS_PAST : {"", "1"}]

ConfigFlags ==
    [workTokenPathFlag : {"", "/flag/work_token.json"},
     workEmailFlag : {"", "flag@work"},
     googleCredentialsPathFlag : {"", "/flag/credentials.json"},
     includeOOOFlag : BOOLEAN]

\* strconv.ParseBool
ParseBool(str) ==
    IF str \in {"1", "t", "T", "TRUE", "true", "True"} THEN [err |-> FALSE, value |-> TRUE]
    ELSE IF str \in {"0", "f", "F", "FALSE", "false", "False"} THEN [err |-> FALSE, value |-> FALSE]
    ELSE [err |-> TRUE, value |-> FALSE]

\* parseInt: fmt.Sscanf(s, "%d", &result), for strings of one character
parseInt(str) ==
    IF \E n \in 0..9 : ToString(n) = str
    THEN [err |-> FALSE, value |-> CHOOSE n \in 0..9 : ToString(n) = str]
    ELSE [err |-> TRUE, value |-> 0]

ConfigError == [err |-> TRUE, config |-> NilConfig]
ConfigOk(config) == [err |-> FALSE, config |-> config]

\* LoadConfig, step 1: the configuration file, if one is named
ConfigFromFile(file) ==
    IF ~file.given THEN ConfigOk(ZeroConfig)
    ELSE IF file.err THEN ConfigError
    ELSE ConfigOk(file.config)

\* LoadConfig, step 2: the environment variables that are set
OverrideWithEnv(config, env) ==
    LET c1 == IF env.WORK_TOKEN_PATH # ""
              THEN [config EXCEPT !.WorkTokenPath = env.WORK_TOKEN_PATH] ELSE config
        c2 == IF env.WORK_EMAIL # "" THEN [c1 EXCEPT !.WorkEmail = env.WORK_EMAIL] ELSE c1
        c3 == IF env.GOOGLE_CREDENTIALS_PATH # ""
              THEN [c2 EXCEPT !.GoogleCredentialsPath = env.GOOGLE_CREDENTIALS_PATH] ELSE c2
        ooo == ParseBool(env.INCLUDE_OOO)
        c4 == IF env.INCLUDE_OOO # "" THEN [c3 EXCEPT !.IncludeOOO = ooo.value] ELSE c3
        weeks == parseInt(env.SYNC_WINDOW_WEEKS)
        c5 == IF env.SYNC_WINDOW_WEEKS # "" THEN [c4 EXCEPT !.SyncWindowWeeks = weeks.value]
              ELSE c4
        past == parseInt(env.SYNC_WINDOW_WEEKS_PAST)
        c6 == IF env.SYNC_WINDOW_WEEKS_PAST # ""
              THEN [c5 EXCEPT !.SyncWindowWeeksPast = past.value] ELSE c5
    IN  IF env.INCLUDE_OOO # "" /\ ooo.err THEN ConfigError
        ELSE IF env.SYNC_WINDOW_WEEKS # "" /\ weeks.err THEN ConfigError
        ELSE IF env.SYNC_WINDOW_WEEKS_PAST # "" /\ past.err THEN ConfigError
        ELSE ConfigOk(c6)

\* A variant of OverrideWithFlags in which a flag only fills a value that
\* neither the file nor the environment gave.
OverrideWithFlags_filling(config, flags) ==
    [config EXCEPT
        !.WorkTokenPath = IF @ = "" THEN flags.workTokenPathFlag ELSE @,
        !.WorkEmail = IF @ = "" THEN flags.workEmailFlag ELSE @,
        !.GoogleCredentialsPath = IF @ = "" THEN flags.googleCredentialsPathFlag ELSE @,
        !.IncludeOOO = IF flags.includeOOOFlag THEN TRUE ELSE @]

\* LoadConfig, step 3: the command-line flags that are set
OverrideWithFlags(config, flags) ==
    [config EXCEPT
        !.WorkTokenPath = IF flags.workTokenPathFlag # "" THEN flags.workTokenPathFlag ELSE @,
        !.WorkEmail = IF flags.workEmailFlag # "" THEN flags.workEmailFlag ELSE @,
        !.GoogleCredentialsPath =
            IF flags.googleCredentialsPathFlag # "" THEN flags.googleCredentialsPathFlag ELSE @,
        !.IncludeOOO = IF flags.includeOOOFlag THEN TRUE ELSE @]

\* LoadConfig, step 4, for one destination: whether it is refused
DestinationRefused(d) ==
    \/ d.Type # "google" /\ d.Type # "apple"
    \/ d.Type = "google" /\ d.TokenPath = ""
    \/ d.Type = "apple" /\ (d.ServerURL = "" \/ d.Username = "" \/ d.Password = "")

\* LoadConfig, step 4, for one destination: its defaults
DestinationDefaults(d, i) ==
    [d EXCEPT !.Name = IF @ = "" THEN DefaultNames[i] ELSE @,
              !.CalendarName = IF @ = "" THEN "Work Sync" ELSE @,
              !.CalendarColorID = IF @ = "" THEN "7" ELSE @]

\* LoadConfig, step 4: required values, the destinations, the defaults
ValidateConfig(config) ==
    IF config.WorkTokenPath = "" THEN ConfigError
    ELSE IF config.GoogleCredentialsPath = "" THEN ConfigError
    ELSE IF Len(config.Destinations) = 0 THEN ConfigError
    ELSE IF \E i \in 1..Len(config.Destinations) : DestinationRefused(config.Destinations[i])
    THEN ConfigError
    ELSE ConfigOk(ApplyWindowDefault(
             [config EXCEPT !.Destinations =
                 [i \in 1..Len(config.Destinations) |->
                     DestinationDefaults(config.Destinations[i], i)]]))

LoadConfig(file, env, flags) ==
    LET fromFile == ConfigFromFile(file)
        fromEnv == OverrideWithEnv(fromFile.config, env)
    IN  IF fromFile.err THEN ConfigError
        ELSE IF fromEnv.err THEN ConfigError
        ELSE ValidateConfig(OverrideWithFlags(fromEnv.config, flags))

ConfigInit ==
    /\ world \in [file : ConfigFiles, env : Environments, flags : ConfigFlags]
    /\ pc = "LoadConfig"
    /\ local = << >>
    /\ work = << >>
    /\ dest = << >>
    /\ calls = << >>
    /\ obs = << >>

CallLoadConfig ==
    /\ pc = "LoadConfig"
    /\ local' = LoadConfig(world.file, world.env, world.flags)
    /\ pc' = "returned"
    /\ UNCHANGED <<world, work, dest, calls, obs>>

ConfigNext == CallLoadConfig

ConfigSpec == ConfigInit /\ [][ConfigNext]_vars

\* ------------------------- the loop over the remaining source events alone

\* The loop of Sync over sourceEventsMap (part_002:951-1001) taken by
\* itself, entered with any source index and any destination grouping: the
\* destination holds no, one or two events with the tracking key of work
\* event A.  Inside Sync the group loop runs first and takes every key of
\* the grouping out of the index, so Sync itself enters this loop only with
\* keys the grouping does not hold.
RemainingStores(destType) ==
    LET one(e) == InsertEvent(destType, << >>, e, 1).store
        two(e, f) == InsertEvent(destType, one(e), f, 2).store
    IN  {<< >>, one(TaggedEvent(id_A, FALSE)), one(LaterTaggedEvent),
         two(TaggedEvent(id_A, FALSE), LaterTaggedEvent),
         two(LaterTaggedEvent, TaggedEvent(id_A, FALSE)),
         two(TaggedEvent(id_A, FALSE), TaggedEvent(id_A, FALSE))}

RemainingInit ==
    /\ world \in [destType : {"google", "apple"},
                  token : {FALSE},
                  interactive : {FALSE},
                  config : {DefaultConfig}]
    /\ work \in WorkCalendars \ {<< >>}
    /\ dest \in RemainingStores(world.destType)
    /\ pc = "remaining"
    /\ LET filtered == filterEvents(work, work)
           destEvents == GetEvents(dest, wideTimeMinForSync(NowDay, world.config),
                                   wideTimeMaxForSync(NowDay, world.config))
       IN  /\ filtered # << >>
           /\ local = [InitialLocal EXCEPT
                         !.filteredEvents = filtered,
                         !.sourceEventsMap = SourceEventsMapOf(filtered),
                         !.destEvents = destEvents,
                         !.destEventsByWorkID = GroupByWorkID(destEvents)]
    /\ calls = << >>
    /\ obs = InitialObs(0, "off")

RemainingNext == InsertRemaining

RemainingSpec == RemainingInit /\ [][RemainingNext]_vars

\* ------------------------------------------------- eventsEqual on its own

\* eventsEqual called on two events: they differ in title, description or
\* location, start at 10:00, at 12:00 +02:00 (the same instant) or at
\* 11:00, with a start that does not parse, all day, or without a start;
\* end likewise; and carry no conference data, a video link, another video
\* link, or a phone entry point.
uri_other == <<"o", "t", "h", "e", "r">>
str_phone == <<"p", "h", "o", "n", "e">>
EqualTexts ==
    {[Summary |-> title_Standup, Description |-> << >>, Location |-> << >>],
     [Summary |-> title_Planning, Description |-> << >>, Location |-> << >>],
     [Summary |-> title_Standup, Description |-> title_Lunch, Location |-> << >>],
     [Summary |-> title_Standup, Description |-> << >>, Location |-> kw_office]}
EqualStarts ==
    {Timed(NowDay + 1, 600, 0), Timed(NowDay + 1, 720, 120), Timed(NowDay + 1, 660, 0),
     [nil |-> FALSE, Date |-> << >>, DateTime |-> <<"x">>],
     AllDay(NowDay + 1), AllDay(NowDay + 2), NilTime}
EqualEnds == {Timed(NowDay + 1, 720, 0), Timed(NowDay + 1, 840, 120), AllDay(NowDay + 2)}
EqualConferences ==
    {<< >>,
     <<[EntryPointType |-> str_video, Uri |-> uri_meet]>>,
     <<[EntryPointType |-> str_video, Uri |-> uri_other]>>,
     <<[EntryPointType |-> str_phone, Uri |-> uri_meet],
       [EntryPointType |-> str_video, Uri |-> uri_meet]>>}
EqualEvents ==
    {[NewEvent(<< >>, text.Summary, start, end)
         EXCEPT !.Description = text.Description, !.Location = text.Location,
                !.ConferenceData = conference] :
        text \in EqualTexts, start \in EqualStarts, end \in EqualEnds,
        conference \in EqualConferences}

EqualInit ==
    /\ world \in [event1 : EqualEvents, event2 : EqualEvents]
    /\ pc = "eventsEqual"
    /\ local = << >>
    /\ work = << >>
    /\ dest = << >>
    /\ calls = << >>
    /\ obs = << >>

CallEventsEqual ==
    /\ pc = "eventsEqual"
    /\ local' = [equal |-> eventsEqual(world.event1, world.event2)]
    /\ pc' = "returned"
    /\ UNCHANGED <<world, work, dest, calls, obs>>

EqualNext == CallEventsEqual

EqualSpec == EqualInit /\ [][EqualNext]_vars

\* ------------------------------------- a pass and the destination's writers

\* Passes over a destination that another party writes to while a pass is
\* under way.  Sync reads the destination twice: the safety gate lists
\* the events of a year around now, and later the reconcile steps list the
\* wide range around the sync window.  The window is the default one, or
\* thirty weeks forward, which puts the end of the wide range more than a
\* year from now.
DistantDay == NowDay + YearDays + 15
DistantManualEvent ==
    NewEvent(<< >>, title_Lunch, Timed(DistantDay, 720, 0), Timed(DistantDay, 780, 0))
LongConfig == [SyncWindowWeeks |-> 30, SyncWindowWeeksPast |-> 0]

RaceInit ==
    /\ world \in [destType : {"google", "apple"},
                  token : BOOLEAN,
                  interactive : {FALSE},
                  config : {DefaultConfig, LongConfig}]
    /\ world.destType = "apple" => ~world.token
    /\ work \in {<< >>, <<WorkEventA("10:00")>>}
    /\ dest \in {<< >>,
                 InsertEvent(world.destType, << >>, ManualEvent, 1).store,
                 InsertEvent(world.destType, << >>, DistantManualEvent, 1).store}
    /\ pc = "idle"
    /\ local = InitialLocal
    /\ calls = << >>
    /\ obs = InitialObs(0, "off")

\* Between the gate's listing and the listing of the wide range another
\* party creates an event by hand.
WriteDuringPass ==
    /\ pc \in {"promptForConfirmation", "getSourceEvents", "getDestEvents"}
    /\ obs.externals < MaxExternal
    /\ Len(dest) < MaxDest
    /\ dest' = InsertEvent(world.destType, dest, ManualEvent, FreshNumber).store
    /\ obs' = [obs EXCEPT !.externals = @ + 1]
    /\ UNCHANGED <<world, work, pc, local, calls>>

RaceNext ==
    \/ StartSync
    \/ FindOrCreateCalendarByName
    \/ ReminderSkipped
    \/ ReminderFind
    \/ ReminderUpsert
    \/ CheckExistingEvents
    \/ ConfirmDeletion
    \/ GetSourceEvents
    \/ GetDestEvents
    \/ DeleteUntagged
    \/ GroupMatched
    \/ GroupStale
    \/ DeleteStale
    \/ InsertRemaining
    \/ WriteDuringPass

RaceSpec == RaceInit /\ [][RaceNext]_vars

\* ------------------------------------------------------------ properties

\* The positions of Sync after the safety gate has let the pass through.
PastGate ==
    {"getSourceEvents", "getDestEvents", "deleteUntagged", "groups", "deleteStale",
     "remaining", "done"}

\* The keys of the filtered source index of the pass.
FilteredKeys == {local.filteredEvents[i].Id : i \in 1..Len(local.filteredEvents)}

\* The mutation calls of the pass issued for tracking key K.
CallsFor(K) == {j \in 1..Len(calls) : calls[j].key = K}

\* The DeleteEvent calls of the pass that address the event with this id.
DeletesOf(id) == {j \in 1..Len(calls) : calls[j].op = "delete" /\ calls[j].id = id}

\* The destination events that carry tracking key K.
Carrying(K) == {i \in 1..Len(dest) : WorkIDOf(dest[i].ev) = K}

\* C1: a pass that follows a pass which ran to completion without a failed
\* call, with nothing written to the source or to the destination in
\* between, issues no InsertEvent, UpdateEvent or DeleteEvent call.
C1_Idempotence == obs.prev \in {"clean", "healed"} => calls = << >>

\* C2: when a pass in which every call succeeded has ended, every key of
\* the filtered source that several listed destination events shared is
\* carried by exactly one destination event.
C2_DuplicateCollapse ==
    (pc = "done" /\ ~obs.failed) =>
        \A K \in FilteredKeys :
            Len(GroupOf(local.destEventsByWorkID, K)) > 1 => Cardinality(Carrying(K)) = 1

\* C3: whatever calls of the pass fail, a DeleteEvent for a destination
\* event without tracking key is issued only in a pass that has a terminal
\* and in which the prompt was shown and answered yes.
C3_GateNeverSilent ==
    \A j \in 1..Len(calls) :
        (calls[j].op = "delete" /\ WorkIDOf(calls[j].ev) = << >>) =>
            /\ world.interactive
            /\ obs.asked
            /\ promptForConfirmation(TRUE, obs.input)

\* C4: a pass without a terminal over a destination that holds an event
\* without tracking key never gets past the safety gate, issues no
\* DeleteEvent and reads no input.
C4_GateNonInteractive ==
    (obs.untagged0 /\ ~world.interactive) =>
        /\ pc \notin PastGate
        /\ \A j \in 1..Len(calls) : calls[j].op # "delete"
        /\ ~obs.asked

\* C5: a pass with a terminal over a destination that holds an event
\* without tracking key gets past the safety gate only after the answer
\* yes or y (trimmed, lower-cased); after any other answer it has returned
\* an error without a DeleteEvent; after yes it returns an error only if a
\* call failed; and when the listing holds one event, without tracking
\* key, and the filtered source is empty, the completed pass has issued
\* exactly one DeleteEvent.
C5_GateInteractive ==
    (obs.untagged0 /\ world.interactive) =>
        /\ pc \in PastGate => (obs.asked /\ promptForConfirmation(TRUE, obs.input))
        /\ (obs.asked /\ ~promptForConfirmation(TRUE, obs.input)) =>
               (pc = "error" /\ \A j \in 1..Len(calls) : calls[j].op # "delete")
        /\ (obs.asked /\ promptForConfirmation(TRUE, obs.input) /\ pc = "error") => obs.failed
        /\ (pc = "done" /\ ~obs.failed /\ Len(local.destEvents) = 1
               /\ WorkIDOf(local.destEvents[1]) = << >> /\ local.filteredEvents = << >>) =>
               Cardinality({j \in 1..Len(calls) : calls[j].op = "delete"}) = 1

\* The destination holds one event for each filtered source event, equal
\* to the event prepared from it, and nothing else.
Converged ==
    /\ Len(dest) = Len(local.filteredEvents)
    /\ \A i \in 1..Len(local.filteredEvents) :
        /\ Cardinality(Carrying(local.filteredEvents[i].Id)) = 1
        /\ \A k \in Carrying(local.filteredEvents[i].Id) :
               eventsEqual(dest[k].ev, prepareSyncEvent(local.filteredEvents[i]))

\* C6: when no other party has written to the destination, the pass that
\* follows an aborted pass, with the source unchanged and every call
\* succeeding, leaves exactly one destination event per filtered source
\* event, equal to its prepared event, and no other event; and the pass
\* after that one issues no mutation call.
C6_SelfHealing ==
    /\ (obs.externals = 0 /\ obs.last = "healed") => Converged
    /\ (obs.externals = 0 /\ obs.prev = "healed") => calls = << >>

\* The listing of the pass holds exactly one event with key K, the work
\* calendar holds event K, and its title or its start differs from that of
\* the destination event.
ChangedSince(K) ==
    /\ Len(GroupOf(local.destEventsByWorkID, K)) = 1
    /\ ~GetEvent(work, K).err
    /\ \/ local.destEventsByWorkID[K][1].Summary # GetEvent(work, K).ev.Summary
       \/ ~timesEqual(local.destEventsByWorkID[K][1].Start, GetEvent(work, K).ev.Start)

\* The pass issued one call for key K: UpdateEvent on the listed event,
\* with the event prepared from the source event.
UpdatedOnce(K) ==
    /\ Cardinality(CallsFor(K)) = 1
    /\ \A j \in CallsFor(K) :
        /\ calls[j].op = "update"
        /\ calls[j].id = local.destEventsByWorkID[K][1].Id
        /\ calls[j].ev = prepareSyncEvent(GetEvent(work, K).ev)

\* C7 as stated: when the destination, written by earlier passes only,
\* holds exactly one event with key K and source event K has changed its
\* start or its title, the completed pass has issued exactly one
\* UpdateEvent on that event, with the prepared event, and no InsertEvent
\* or DeleteEvent for K.
C7_UpdateOnChange_AsStated ==
    (pc = "done" /\ obs.externals = 0) =>
        \A K \in WorkIDs : ChangedSince(K) => UpdatedOnce(K)

\* C7, amended: the same, for a source event K that is still in the
\* filtered source index after its change.
C7_UpdateOnChange ==
    pc = "done" => \A K \in WorkIDs \cap FilteredKeys : ChangedSince(K) => UpdatedOnce(K)

\* A completed pass found one destination event for a changed source event
\* that is still in the filtered source index, and updated it.
C7_Witness ==
    /\ pc = "done"
    /\ \E K \in WorkIDs \cap FilteredKeys :
        /\ ChangedSince(K)
        /\ \E j \in CallsFor(K) : calls[j].op = "update" /\ ~calls[j].err

\* The event carries the identifier of a source event that is not in the
\* filtered source index.
Stale(e) == WorkIDOf(e) \in WorkIDs \ FilteredKeys

\* The pass issued exactly one DeleteEvent for the event, and no
\* InsertEvent or UpdateEvent for its key.
DeletedOnce(e) ==
    /\ Cardinality(DeletesOf(e.Id)) = 1
    /\ \A j \in CallsFor(WorkIDOf(e)) : calls[j].op = "delete"

OnlyEventIs(summary, start, end) ==
    /\ Len(dest) = 1
    /\ WorkIDOf(dest[1].ev) = id_A
    /\ dest[1].ev.Summary = summary
    /\ timesEqual(dest[1].ev.Start, start)
    /\ timesEqual(dest[1].ev.End, end)

\* C9: on a destination that starts empty, after the pass over source
\* {A 10:00-11:00 "Standup"} the destination holds exactly one event,
\* tagged A, titled "Standup"; after A has moved to 11:00-12:00 and the
\* next pass, exactly one event, at 11:00-12:00; after A has been deleted
\* and the next pass, no event.
C9_ThreePasses ==
    /\ obs.scenario = "synced" =>
           OnlyEventIs(title_Standup, WorkEventA("10:00").Start, WorkEventA("10:00").End)
    /\ obs.scenario = "resynced" =>
           OnlyEventIs(title_Standup, WorkEventA("11:00").Start, WorkEventA("11:00").End)
    /\ obs.scenario = "emptied" => dest = << >>

\* The event written for source event E: one private tag, workEventId =
\* E's identifier; title, description, location, start, end and conference
\* data copied; default reminders; no attendees.
BoundTo(event, E) ==
    /\ DOMAIN event.Private = {str_workEventId}
    /\ event.Private[str_workEventId] = E.Id
    /\ event.Summary = E.Summary
    /\ event.Description = E.Description
    /\ event.Location = E.Location
    /\ event.Start = E.Start
    /\ event.End = E.End
    /\ event.ConferenceData = E.ConferenceData
    /\ event.UseDefaultReminders
    /\ event.Attendees = << >>

\* The events a pass has seen in the destination, by listing or by key.
SeenEvents ==
    {local.destEvents[i] : i \in 1..Len(local.destEvents)}
        \cup {local.existingReminders[i] : i \in 1..Len(local.existingReminders)}

\* C10: every event the reconcile steps pass to InsertEvent or UpdateEvent
\* is bound to the filtered source event whose key the call was issued
\* for, and every UpdateEvent addresses a destination event that carries
\* the key of the event passed.
C10_TrackingKeyBinding ==
    \A j \in 1..Len(calls) :
        /\ (calls[j].op \in {"insert", "update"} /\ calls[j].step # "reminder") =>
               \E i \in 1..Len(local.filteredEvents) :
                   /\ local.filteredEvents[i].Id = calls[j].key
                   /\ BoundTo(calls[j].ev, local.filteredEvents[i])
        /\ calls[j].op = "update" =>
               \E e \in SeenEvents : e.Id = calls[j].id /\ WorkIDOf(e) = WorkIDOf(calls[j].ev)

\* A pass has inserted the event of a source event that has attendees and
\* updated the event of one that has conference data.
C10_Witness ==
    /\ \E j \in 1..Len(calls) :
        /\ calls[j].op = "insert" /\ calls[j].step = "remaining"
        /\ GetEvent(work, calls[j].key).ev.Attendees # << >>
    /\ \E j \in 1..Len(calls) :
        /\ calls[j].op = "update" /\ calls[j].step = "group"

\* C11: every event the system writes carries a tracking key.  Each event
\* passed to InsertEvent or UpdateEvent, the reminder included, has a
\* non-empty workEventId; and as long as nobody else has written to the
\* destination, every event stored there carries a key, so that no pass
\* counts or lists an event without one.
C11_AlwaysTagged ==
    /\ \A j \in 1..Len(calls) :
           calls[j].op \in {"insert", "update"} =>
               /\ WorkIDOf(calls[j].ev) # << >>
               /\ WorkIDOf(calls[j].ev) = calls[j].key
    /\ obs.externals = 0 =>
           /\ \A i \in 1..Len(dest) : WorkIDOf(dest[i].ev) # << >>
           /\ local.manuallyCreatedCount = 0
           /\ local.eventsWithoutWorkID = << >>
           /\ ~obs.untagged0

\* A pass over a CalDAV destination that only the system has written to has
\* listed an event of an earlier pass and has written another.
C11_Witness ==
    /\ obs.externals = 0
    /\ world.destType = "apple"
    /\ pc = "done"
    /\ Len(local.destEvents) > 0
    /\ \E j \in 1..Len(calls) : calls[j].op = "insert" /\ ~calls[j].err

\* C12: the source calendar is never mutated.  Every step of a pass, from
\* the call of Sync to its return, leaves the work calendar as it was, and
\* the only methods the pass calls on the work client are GetEvents and
\* GetEvent.
C12_SourceReadOnly ==
    [][(pc \notin Rest \/ pc' \notin Rest) =>
           /\ work' = work
           /\ obs'.workCalls \subseteq {"GetEvents", "GetEvent"}]_vars

\* A pass has listed a source calendar that holds events, has dropped one
\* in the filter and has written to the destination.
C12_Witness ==
    /\ pc = "done"
    /\ "GetEvents" \in obs.workCalls
    /\ Len(work) > Len(local.filteredEvents)
    /\ \E j \in 1..Len(calls) : ~calls[j].err

\* C13: the untagged events are deleted first.  In the calls of a pass,
\* every DeleteEvent for a destination event without tracking key comes
\* before every InsertEvent, UpdateEvent or DeleteEvent issued for an event
\* that carries a tracking key, the key of the reminder included.
C13_DeleteUntaggedFirst ==
    \A i, j \in 1..Len(calls) :
        (calls[i].step = "untagged" /\ calls[j].key # << >>) => i < j

\* C14: the safety gate decides once, between the listing and the first
\* delete.  In a pass over a destination that holds an event without
\* tracking key, once the pass is past the gate or has issued a DeleteEvent,
\* the gate has listed the destination, has counted that event and has
\* taken its decision exactly once; no pass takes it twice.
C14_GateDecidesOnce ==
    /\ obs.decisions <= 1
    /\ (obs.untagged0 /\ (pc \in PastGate \/ \E j \in 1..Len(calls) : calls[j].op = "delete")) =>
           /\ local.manuallyCreatedCount > 0
           /\ obs.decisions = 1

\* The completed pass has attempted every mutation its listings call for:
\* a DeleteEvent for every listed event without tracking key and for every
\* listed event whose key is not in the filtered source index, and for
\* every key of the index an InsertEvent when no listed event carries it,
\* an UpdateEvent when the listed representative differs.
AttemptedAll ==
    /\ \A i \in 1..Len(local.destEvents) :
           WorkIDOf(local.destEvents[i]) \notin FilteredKeys =>
               DeletesOf(local.destEvents[i].Id) # {}
    /\ \A K \in FilteredKeys :
           IF K \in DOMAIN local.destEventsByWorkID
           THEN \/ eventsEqual(Representative(local.destEventsByWorkID[K]),
                               prepareSyncEvent(SourceEventsMapOf(local.filteredEvents)[K]))
                \/ \E j \in CallsFor(K) : calls[j].op = "update"
           ELSE \E j \in CallsFor(K) : calls[j].op = "insert"

\* What a mutation call of the reconcile steps that succeeded has done is
\* still in the destination: the deleted resource is gone, an event with
\* the key and the title written is there.
NotUndone(j) ==
    IF calls[j].op = "delete"
    THEN \A i \in 1..Len(dest) : dest[i].href # calls[j].id
    ELSE \E i \in Carrying(calls[j].key) : dest[i].ev.Summary = calls[j].ev.Summary

\* C15: a failed mutation is not fatal.  Once Sync has issued a mutation
\* call of the reconcile steps it never returns an error, whichever of
\* these calls fail; when it returns it has attempted the mutation of
\* every other event; and what the calls that succeeded have done stays
\* done.
C15_MutationFailuresNotFatal ==
    /\ (\E j \in 1..Len(calls) : calls[j].step # "reminder") => pc # "error"
    /\ pc = "done" => AttemptedAll
    /\ \A j \in 1..Len(calls) :
           (calls[j].step # "reminder" /\ ~calls[j].err) => NotUndone(j)

\* A pass has returned nil after a mutation call of the reconcile steps
\* that failed and a later call that succeeded.
C15_Witness ==
    /\ pc = "done"
    /\ \E j, k \in 1..Len(calls) :
           /\ j < k
           /\ calls[j].step # "reminder" /\ calls[j].err
           /\ ~calls[k].err

\* C16: a listing that fails is fatal to the pass.  When a listing of the
\* source events or of the destination events (the safety gate's listing,
\* the wide listing) has failed, Sync has returned an error.
C16_FetchErrorsFatal ==
    obs.failedCalls \cap {"GetEvents:existing", "GetEvents:source", "GetEvents:destination"} # {}
        => pc = "error"

\* A call of the reminder step has failed in the pass.
ReminderFailed ==
    \/ "FindEventsByWorkID" \in obs.failedCalls
    \/ \E j \in 1..Len(calls) : calls[j].step = "reminder" /\ calls[j].err

\* C19: a failure in the reminder step never fails the sync.  Sync returns
\* an error only because the calendar could not be resolved, a listing of
\* the source or the wide listing of the destination failed, or the safety
\* gate refused; and a pass in which the reminder step failed and which
\* returned nil has listed the source and attempted every mutation.
C19_ReminderNeverFatal ==
    /\ pc = "error" =>
           \/ obs.failedCalls \cap {"FindOrCreateCalendarByName", "GetEvents:source",
                                    "GetEvents:destination"} # {}
           \/ /\ local.manuallyCreatedCount > 0
              /\ obs.decisions = 1
              /\ ~promptForConfirmation(world.interactive, obs.input)
    /\ (ReminderFailed /\ pc = "done") =>
           /\ "GetEvents" \in obs.workCalls
           /\ AttemptedAll

\* A pass in which the reminder step failed has gone on to the reconcile
\* steps, has written to the destination and has returned nil.
C19_Witness ==
    /\ pc = "done"
    /\ ReminderFailed
    /\ \E j \in 1..Len(calls) : calls[j].step # "reminder" /\ ~calls[j].err

\* C20: a cancelled pass is aborted.  Once the context passed to Sync has
\* been cancelled, the pass issues at most the mutation call that was
\* under way and no other.
C20_CancellationAborts ==
    obs.cancelledAt # << >> => Len(calls) <= obs.cancelledAt[1] + 1

\* The destinations that failed, by position in the list main processes.
FailedDestinations ==
    {i \in 1..Len(obs.outcome) : obs.outcome[i] # "none"}

\* The k-th of the destinations that failed.
RECURSIVE NthFailed(_, _)
NthFailed(k, from) ==
    IF from \in FailedDestinations
    THEN IF k = 1 THEN from ELSE NthFailed(k - 1, from + 1)
    ELSE NthFailed(k, from + 1)

\* C17: the destinations are isolated from each other.  When main has
\* gone through its loop, whichever client constructions, authentications
\* and Sync calls failed: every destination of the list has been
\* processed, each with a call of its own; the exit code is 1 exactly
\* when a destination failed; and the collected errors are, in order,
\* those of the destinations that failed, each under the name of its
\* destination.
C17_DestinationIsolation ==
    pc = "exited" =>
        /\ Len(obs.outcome) = Len(local.destinations)
        /\ \A i \in 1..Len(local.destinations) :
               \E j \in 1..Len(calls) : calls[j].who = i
        /\ (obs.exit = "1") <=> (FailedDestinations # {})
        /\ obs.exit \in {"0", "1"}
        /\ Len(local.syncErrors) = Cardinality(FailedDestinations)
        /\ \A k \in 1..Len(local.syncErrors) :
               /\ local.syncErrors[k].name = local.destinations[NthFailed(k, 1)].Name
               /\ local.syncErrors[k].name # ""
               /\ local.syncErrors[k].err = obs.outcome[NthFailed(k, 1)]

\* Of two destinations the first failed in Sync and the second was
\* synchronised; the process has exited with code 1 and one error.
C17_Witness ==
    /\ pc = "exited"
    /\ Len(local.destinations) = 2
    /\ obs.outcome = <<"sync", "none">>
    /\ obs.exit = "1"

\* C18: configuration errors are fatal before any network activity.  When
\* main stops because --destination names no configured destination, or
\* because a destination has a type other than google and apple, it has
\* made no authentication, no token refresh and no client call.
C18_ConfigErrorsBeforeNetwork ==
    (pc = "fatal" /\ obs.cause \in {"destination not found", "invalid type"}) =>
        calls = << >>

\* The events given to the filter that are timed, have a start and an end
\* that parse, and are not out of office.
TimedCandidates ==
    {i \in 1..Len(world.events) :
        /\ world.events[i].Start.Date = << >>
        /\ ParsesRFC3339(world.events[i].Start.DateTime)
        /\ ParsesRFC3339(world.events[i].End.DateTime)
        /\ ~isOutOfOffice(world.events[i], world.client)}

\* The filter has kept the event.
Kept(i) == world.events[i] \in Range(local)

\* C21: the spanning case.  A timed event that is not out of office, that
\* starts before 06:00 and ends at or after the midnight that follows its
\* start day is kept by the filter.
C21_SpanningKept ==
    pc = "returned" =>
        \A i \in TimedCandidates :
            LET start == world.events[i].Start.DateTime
                end == world.events[i].End.DateTime
            IN  (start[2] < windowStart /\ end[1] > start[1]) => Kept(i)

\* C22: the time window.  A timed event that is not out of office and whose
\* start and end parse is kept when its start lies in [06:00, 24:00) or its
\* end lies in the window, and dropped when it lies entirely before 06:00
\* (05:00-05:30 is dropped, 05:30-06:30 is kept); a timed event that is not
\* out of office and whose start or end does not parse is dropped.
C22_TimeWindow ==
    pc = "returned" =>
        /\ \A i \in TimedCandidates :
               LET start == world.events[i].Start.DateTime
                   end == world.events[i].End.DateTime
               IN  /\ (start[2] >= windowStart /\ start[2] < windowEnd) => Kept(i)
                   /\ (end[2] > windowStart /\ end[2] <= windowEnd) => Kept(i)
                   /\ (end[1] = start[1] /\ end[2] <= windowStart) => ~Kept(i)
        /\ \A i \in 1..Len(world.events) :
               (/\ world.events[i].Start.Date = << >>
                /\ \/ ~ParsesRFC3339(world.events[i].Start.DateTime)
                   \/ ~ParsesRFC3339(world.events[i].End.DateTime))
                   => ~Kept(i)

\* The filter has kept a plain event from 05:30 to 06:30.
C22_Witness ==
    /\ pc = "returned"
    /\ \E i \in TimedCandidates :
           /\ world.events[i].Start.DateTime = <<NowDay, 330, 0>>
           /\ world.events[i].End.DateTime = <<NowDay, 390, 0>>
           /\ Kept(i)

\* The title contains one of the out-of-office keywords.
HasOOFKeyword(event) ==
    \E keyword \in {kw_out_of_office, kw_oof, kw_pto, kw_vacation, kw_away} :
        Contains(ToLower(event.Summary), keyword)

HasLocationPattern(event) ==
    LET summary == ToLower(event.Summary)
    IN  \/ Contains(summary, kw_office) /\ ~Contains(summary, kw_out_of)
        \/ \E pattern \in {kw_remote, kw_working_from, kw_work_from_home,
                            kw_work_from_office, kw_wfh, kw_wfo, kw_work_location} :
               Contains(summary, pattern)

MondayOf(instant) ==
    CHOOSE m \in ((instant \div SecondsPerDay) - 6)..(instant \div SecondsPerDay) :
        Weekday(m) = 1

\* C25: the window calculator.  For every now, Sunday included, every
\* configured number of weeks forward from 1 on and every number of weeks
\* back, timeMin is 00:00:00 of the Monday 7 x weeks-back days before the
\* Monday of the current week, timeMax is 23:59:59 of the Sunday
\* 7 x weeks-forward - 1 days after that Monday, and timeMin < timeMax.
C25_WindowCalculator ==
    (pc = "returned" /\ world.SyncWindowWeeks >= 1) =>
        LET monday == MondayOf(world.now)
            first == monday - 7 * world.SyncWindowWeeksPast
            last == monday + 7 * world.SyncWindowWeeks - 1
        IN  /\ local.timeMin = first * SecondsPerDay
            /\ Weekday(first) = 1
            /\ local.timeMax = last * SecondsPerDay + EndOfDay
            /\ Weekday(last) = 0
            /\ local.timeMin < local.timeMax
            /\ local.timeMin <= world.now /\ world.now <= local.timeMax

\* The window has been computed on a Sunday, for one week forward and two
\* weeks back.
C25_Witness ==
    /\ pc = "returned"
    /\ Weekday(world.now \div SecondsPerDay) = 0
    /\ world.SyncWindowWeeks = 1
    /\ world.SyncWindowWeeksPast = 2

\* C26: weeks forward configured as 0.  The configuration is rejected, or
\* the window Sync computes is the current week: from 00:00:00 of its
\* Monday to 23:59:59 of its Sunday.
C26_ZeroWeeksForward ==
    (pc = "returned" /\ world.SyncWindowWeeks = 0) =>
        /\ local.timeMin = MondayOf(world.now) * SecondsPerDay
        /\ local.timeMax = (MondayOf(world.now) + 6) * SecondsPerDay + EndOfDay

\* C27: after the insert of an event with tracking key K and an update
\* addressed to the stored event's id, the CalDAV calendar holds exactly
\* one event with key K, and it has the content of the event passed to the
\* update, whatever Id that event carries.
C27_UpdateKeepsOne ==
    pc = "updated" =>
        LET found == FindEventsByWorkID(dest, id_A)
        IN  /\ Len(found) = 1
            /\ found[1].Summary = world.updated.Summary
            /\ StartInstantOf(found[1]) = StartInstantOf(world.updated)
            /\ EndInstantOf(found[1]) = EndInstantOf(world.updated)

\* The value of a setting by precedence: the flag if it is not empty, else
\* the environment variable if it is not empty, else the file's value.
ByPrecedence(flag, variable, fileValue) ==
    IF flag # "" THEN flag ELSE IF variable # "" THEN variable ELSE fileValue
FileValues == IF world.file.given /\ ~world.file.err THEN world.file.config ELSE ZeroConfig
ExpectedWorkTokenPath ==
    ByPrecedence(world.flags.workTokenPathFlag, world.env.WORK_TOKEN_PATH,
                 FileValues.WorkTokenPath)
ExpectedWorkEmail ==
    ByPrecedence(world.flags.workEmailFlag, world.env.WORK_EMAIL, FileValues.WorkEmail)
ExpectedGoogleCredentialsPath ==
    ByPrecedence(world.flags.googleCredentialsPathFlag, world.env.GOOGLE_CREDENTIALS_PATH,
                 FileValues.GoogleCredentialsPath)

\* C28: a configuration that LoadConfig returns holds, for the work token
\* path, the work email and the credentials path, the flag if not empty,
\* else the environment variable if not empty, else the file's value; and
\* when the work token path or the credentials path is missing, the
\* destinations array is empty, or a destination's type is neither google
\* nor apple, LoadConfig returns an error and a nil configuration.
C28_PrecedenceAndValidation ==
    pc = "returned" =>
        /\ ~local.err =>
              /\ local.config.WorkTokenPath = ExpectedWorkTokenPath
              /\ local.config.WorkEmail = ExpectedWorkEmail
              /\ local.config.GoogleCredentialsPath = ExpectedGoogleCredentialsPath
        /\ (\/ ExpectedWorkTokenPath = ""
            \/ ExpectedGoogleCredentialsPath = ""
            \/ Len(FileValues.Destinations) = 0
            \/ \E i \in 1..Len(FileValues.Destinations) :
                   FileValues.Destinations[i].Type \notin {"google", "apple"})
               => local.err /\ local.config = NilConfig

\* C28, witness: LoadConfig has returned a configuration where a flag beat
\* a variable and a file value, a variable beat a file value, and a file
\* value stood alone.
C28_Witness ==
    /\ pc = "returned"
    /\ ~local.err
    /\ world.flags.workTokenPathFlag # "" /\ world.env.WORK_TOKEN_PATH # ""
    /\ FileValues.WorkTokenPath # ""
    /\ world.flags.googleCredentialsPathFlag = "" /\ world.env.GOOGLE_CREDENTIALS_PATH # ""
    /\ FileValues.GoogleCredentialsPath # ""
    /\ world.flags.workEmailFlag = "" /\ world.env.WORK_EMAIL = ""
    /\ FileValues.WorkEmail # ""

\* The member of a tracking-key group that is to be compared and updated:
\* the first whose start lies in [timeMin, timeMax), else the first.
StartsInWindow(event) ==
    /\ ~event.Start.nil
    /\ timeMin <= StartInstantOf(event)
    /\ StartInstantOf(event) < timeMax
ExpectedRepresentative(group) ==
    LET inside == {i \in 1..Len(group) : StartsInWindow(group[i])}
    IN  IF inside = {} THEN 1
        ELSE CHOOSE i \in inside : \A j \in inside : i <= j
GroupCalls(K) == {j \in CallsFor(K) : calls[j].step = "group"}
FilteredEvent(K) ==
    local.filteredEvents[CHOOSE i \in 1..Len(local.filteredEvents) :
                             local.filteredEvents[i].Id = K]

\* C30: for a tracking-key group whose key is in the filtered source index,
\* once the group loop has handled it, the loop has compared the first
\* member whose start lies in [timeMin, timeMax), or the first member if
\* there is none, with the prepared event, has issued one UpdateEvent call
\* addressed to that member if they differ and none if they are equal, and
\* has issued no other mutation call for the group.
C30_RepresentativeSelection ==
    pc \in {"groups", "deleteStale", "remaining", "done"} =>
        \A K \in (DOMAIN local.destEventsByWorkID \cap FilteredKeys) \ local.todo :
            LET group == local.destEventsByWorkID[K]
                representative == group[ExpectedRepresentative(group)]
            IN  /\ \A j \in GroupCalls(K) :
                       calls[j].op = "update" /\ calls[j].id = representative.Id
                /\ Cardinality(GroupCalls(K)) <= 1
                /\ GroupCalls(K) = {} <=>
                       eventsEqual(representative, prepareSyncEvent(FilteredEvent(K)))

\* C30, witness: the group loop has updated the second member of a group
\* of two, the first of which starts outside the sync window.
C30_Witness ==
    /\ pc \in {"groups", "deleteStale", "remaining", "done"}
    /\ \E K \in (DOMAIN local.destEventsByWorkID \cap FilteredKeys) \ local.todo :
           LET group == local.destEventsByWorkID[K]
           IN  /\ Len(group) = 2
               /\ ~StartsInWindow(group[1])
               /\ StartsInWindow(group[2])
               /\ \E j \in GroupCalls(K) : calls[j].id = group[2].Id

\* C30, the other case: the group loop has updated the first member of a
\* group none of whose members starts inside the sync window.
C30_WitnessNoneInside ==
    /\ pc \in {"groups", "deleteStale", "remaining", "done"}
    /\ \E K \in (DOMAIN local.destEventsByWorkID \cap FilteredKeys) \ local.todo :
           LET group == local.destEventsByWorkID[K]
           IN  /\ \A i \in 1..Len(group) : ~StartsInWindow(group[i])
               /\ \E j \in GroupCalls(K) : calls[j].id = group[1].Id

\* A pass has run to its end without a failed call over a destination
\* that, when the pass began, held only events with a tracking key inside
\* the wide range of the destination listing.  (The pass writes and
\* deletes events inside that range only.)
CleanPassOverTagged ==
    /\ pc = "done"
    /\ ~obs.failed
    /\ ~obs.untagged0
    /\ \A i \in 1..Len(dest) :
           dest[i].ev \in Range(GetEvents(dest, wideTimeMinForSync(NowDay, world.config),
                                          wideTimeMaxForSync(NowDay, world.config)))

\* C29: after such a pass no destination event carries a tracking key that
\* is absent from the filtered source index, and for every filtered source
\* event there is a destination event with its key that compares equal to
\* its prepared event.
C29_SourceAlwaysWins ==
    CleanPassOverTagged =>
        /\ \A i \in 1..Len(dest) :
               WorkIDOf(dest[i].ev) # << >> => WorkIDOf(dest[i].ev) \in FilteredKeys
        /\ \A K \in FilteredKeys :
               \E i \in Carrying(K) :
                   eventsEqual(dest[i].ev, prepareSyncEvent(FilteredEvent(K)))

\* The mutation calls the loop over the remaining source events has issued.
RemainingCalls == {j \in 1..Len(calls) : calls[j].step = "remaining"}

UnchangedKeys ==
    {K \in (DOMAIN local.destEventsByWorkID \cap FilteredKeys) \ local.todo :
        eventsEqual(Representative(local.destEventsByWorkID[K]),
                    prepareSyncEvent(FilteredEvent(K)))}

\* C33: when the representative destination event of key K already equals
\* the event prepared from source event K, the pass issues no UpdateEvent,
\* InsertEvent or DeleteEvent call for key K, and K is consumed from the
\* source index.
C33_UnchangedEvent ==
    pc \in {"groups", "deleteStale", "remaining", "done"} =>
        \A K \in UnchangedKeys :
            /\ CallsFor(K) = {}
            /\ K \notin DOMAIN local.sourceEventsMap

\* C33, witness: a pass has ended over a destination whose event for a
\* source key was equal to the prepared event.
C33_Witness ==
    /\ pc = "done"
    /\ ~obs.failed
    /\ UnchangedKeys # {}

\* The calls of the loop over the remaining source events for key K with
\* operation op.
RemainingCallsOf(K, op) ==
    {j \in RemainingCalls : calls[j].key = K /\ calls[j].op = op}

IsTimed(dt) == ~dt.nil /\ dt.DateTime # << >> /\ dt.Date = << >>
IsAllDay(dt) == ~dt.nil /\ dt.Date # << >>
\* Two timed values denote the same instant: the same second in UTC, or,
\* for values that are no RFC 3339 times, the same text.
SameInstant(dt1, dt2) ==
    IF ParsesRFC3339(dt1.DateTime) /\ ParsesRFC3339(dt2.DateTime)
    THEN (dt1.DateTime[1] * MinutesPerDay + dt1.DateTime[2] - dt1.DateTime[3])
             = (dt2.DateTime[1] * MinutesPerDay + dt2.DateTime[2] - dt2.DateTime[3])
    ELSE dt1.DateTime = dt2.DateTime
\* What equality requires of the two start values, or the two end values,
\* of two events.
TimesMatch(dt1, dt2) ==
    /\ IsTimed(dt1) /\ IsTimed(dt2) => SameInstant(dt1, dt2)
    /\ IsAllDay(dt1) /\ IsAllDay(dt2) => dt1.Date = dt2.Date
    /\ ~(IsAllDay(dt1) /\ IsTimed(dt2))
    /\ ~(IsTimed(dt1) /\ IsAllDay(dt2))
\* The video meeting link of an event: the URI of its first video entry
\* point that has one.
VideoLink(event) ==
    LET links == SelectSeq(event.ConferenceData,
                           LAMBDA ep : ep.EntryPointType = str_video /\ ep.Uri # << >>)
    IN  IF links = << >> THEN << >> ELSE Head(links).Uri
SameKind(dt1, dt2) ==
    (IsTimed(dt1) /\ IsTimed(dt2)) \/ (IsAllDay(dt1) /\ IsAllDay(dt2))
AllMatch(event1, event2) ==
    /\ event1.Summary = event2.Summary
    /\ event1.Description = event2.Description
    /\ event1.Location = event2.Location
    /\ TimesMatch(event1.Start, event2.Start)
    /\ TimesMatch(event1.End, event2.End)
    /\ VideoLink(event1) = VideoLink(event2)

\* C32: two events are equal only if title, description and location match
\* exactly, start and end denote the same instants when both are timed
\* and the same date strings when both are all-day, an all-day value never
\* meets a timed one, and the video meeting link is the same; and two
\* events with timed or all-day starts and ends that match in all of this,
\* the same instant written with different zone offsets included, are
\* equal.
C32_EventEquality ==
    pc = "returned" =>
        /\ local.equal => AllMatch(world.event1, world.event2)
        /\ (/\ AllMatch(world.event1, world.event2)
            /\ SameKind(world.event1.Start, world.event2.Start)
            /\ SameKind(world.event1.End, world.event2.End)) => local.equal

\* C32, witness: eventsEqual has found equal two events whose starts and
\* ends are the same instants written with different zone offsets.
C32_Witness ==
    /\ pc = "returned"
    /\ local.equal
    /\ IsTimed(world.event1.Start) /\ IsTimed(world.event2.Start)
    /\ world.event1.Start.DateTime # world.event2.Start.DateTime
    /\ world.event1.End.DateTime # world.event2.End.DateTime

\* C35: after a pass on a google destination in which the reminder was
\* inserted or updated, an event with the tracking key
\* TOKEN_REFRESH_REMINDER still exists in the destination; and at all
\* times at most one such event exists.
C35_ReminderSurvives ==
    /\ (/\ pc = "done"
        /\ world.destType = "google"
        /\ \E j \in 1..Len(calls) : calls[j].step = "reminder" /\ ~calls[j].err)
           => Carrying(reminderWorkID) # {}
    /\ Cardinality(Carrying(reminderWorkID)) <= 1

\* The calls of the pass that address an existing destination event.
Targeting == {j \in 1..Len(calls) : calls[j].op \in {"update", "delete"}}

\* C37: within one pass no destination event id is the target of more than
\* one UpdateEvent or DeleteEvent call, and no UpdateEvent is issued for an
\* id the pass has already deleted.
C37_OneMutationPerEvent ==
    \A j, k \in Targeting : calls[j].id = calls[k].id => j = k

\* The DeleteEvent calls of the delete-untagged step of the pass.
UntaggedDeletes == {j \in 1..Len(calls) : calls[j].step = "untagged"}

\* C34: every untagged destination event a pass deletes was included in
\* the count the safety gate evaluated in that pass; so, in a pass no call
\* of which has failed, the gate's count is at least the number of untagged
\* events the pass has deleted.
C34_GateCountsWhatIsDeleted ==
    pc \notin {"idle", "error", "aborted"} /\ obs.failures = 0 /\ ~obs.failed
        => Cardinality(UntaggedDeletes) <= local.manuallyCreatedCount

\* Every tracking key of a source event is carried by at most one event of
\* the store.
NoDuplicate(store) ==
    \A K \in WorkIDs :
        Cardinality({i \in 1..Len(store) : WorkIDOf(store[i].ev) = K}) <= 1
\* Every event of the store that carries a tracking key lies inside the
\* range of the pass's destination listing.
TaggedInsideWideRange(store) ==
    \A i \in 1..Len(store) :
        WorkIDOf(store[i].ev) # << >> =>
            store[i].ev \in Range(GetEvents(store, wideTimeMinForSync(NowDay, world.config),
                                            wideTimeMaxForSync(NowDay, world.config)))
\* A step of a pass over a destination whose UpdateEvent overwrites in place.
PassStepInPlace == pc \notin Rest /\ world.destType = "google"

====
